---- MODULE Spec2Model ----
(***************************************************************************)
(* Cache layer of ImpalaToGo: the per-endpoint connection pool             *)
(* (FileSystemDescriptorBound, be/src/dfs_cache/                           *)
(* filesystem-descriptor-bound.cc) and the process-wide registry           *)
(* (CacheLayerRegistry, be/src/dfs_cache/cache-layer-registry.cc).         *)
(*                                                                         *)
(* Each component has its own specification over its own variables; the    *)
(* variables of the other components stay at their initial values.         *)
(*   Spec     the pool, calls of getFreeConnection() interleaved           *)
(*            statement by statement                                       *)
(*   SpecLive the pool as in Spec, every call in progress being scheduled  *)
(*   SpecSeq  the pool, one getFreeConnection() call at a time             *)
(*   SpecOps  the operations of an adapter that take a raiiDfsConnection   *)
(*   SpecRegistry  setupFileSystem and getFileSystemDescriptor             *)
(*   SpecPairing   the create-from-select pairings                         *)
(*   SpecCache     findFile, addFile and deleteFile                        *)
(*   SpecTachyon   fileOpen of TachyonFileSystemDescriptorBound            *)
(*   SpecInit      CacheLayerRegistry::init and its callers                *)
(*   SpecTeardown  the pool and the destructor of the adapter              *)
(*   SpecAdapters  getFreeConnection() on two adapters, each its own list  *)
(***************************************************************************)
EXTENDS Integers, Sequences, FiniteSets, TLC

(***************************************************************************)
(* Bounds of the model.                                                    *)
(***************************************************************************)
\* threads that call getFreeConnection() on one adapter
NumThreads == 2
\* threads that call the registry
NumClients == 2
\* users one cache entry can have at a time
MaxUsers == 2
\* reads of the priming pass that return data
MaxReads == 2
\* successful native connects (the handle counter stops there)
MaxConnects == 3
\* successful native connects of each of the two adapters
MaxSlots == 1
\* calls and releases the log of a serial run keeps
MaxLog == 4

Threads == 1..NumThreads

(***************************************************************************)
(* FileSystemDescriptorBound: the pool of one adapter.                     *)
(*                                                                         *)
(* A dfsConnection is [connection, state]: the native handle (0 is NULL)   *)
(* and its ConnectionState.  m_connections only grows at its end, so the   *)
(* position of a dfsConnection in it is the identity of the shared_ptr; a  *)
(* raiiDfsConnection is the position it wraps, 0 for the empty one         *)
(* (raiiDfsConnection(dfsConnectionPtr())).                                *)
(***************************************************************************)
VARIABLES
    m_connections,  \* std::list<boost::shared_ptr<dfsConnection> >
    pc,             \* where each thread is in getFreeConnection()
    it,             \* the iterator i1 / i2 of each thread's call
    conn,           \* the local fsBridge conn of each thread's call
    lease,          \* the raiiDfsConnection each thread holds
    handles,        \* native connections made so far
    fresh,          \* the pool was empty when the adapter was constructed
    entry,          \* m_connections when the latest call was entered
    returned,       \* the thread whose call returned in the last step, or 0
    released,       \* some non-empty raiiDfsConnection has been destroyed
    failed,         \* some connect() has returned NULL
    serial,         \* the callers make one call at a time (SpecSeq)
    appended,       \* the slots each thread's call has appended so far
    log             \* when serial: the first calls and releases, in order

poolVars == <<m_connections, pc, it, conn, lease, handles, fresh, entry,
              returned, released, failed, serial, appended, log>>

(***************************************************************************)
(* FileSystemDescriptorBound: the operations that take a raiiDfsConnection *)
(* (SpecOps).                                                              *)
(***************************************************************************)
VARIABLES
    io              \* the latest adapter operation and what it did

opVars == <<io>>

(***************************************************************************)
(* CacheLayerRegistry: the directory of adapters (SpecRegistry).           *)
(***************************************************************************)
VARIABLES
    m_filesystems,  \* dfs_type -> host -> the adapter (a shared_ptr)
    m_connmux,      \* the thread that holds the directory's mutex, or 0
    rpc,            \* where each client is in its registry call
    rcall,          \* the function each client called and its fsDescriptor
    rret,           \* what the call returned
    built           \* the adapters constructed so far for each (type, host)

regVars == <<m_filesystems, m_connmux, rpc, rcall, rret, built>>

(***************************************************************************)
(* CacheLayerRegistry: the create-from-select pairings (SpecPairing).      *)
(***************************************************************************)
VARIABLES
    m_createFromSelect,     \* local dfsFile -> remote dfsFile
    m_createfromselect_mux, \* the thread that holds the map's mutex, or 0
    ppc,            \* where each client is in its pairing call
    pcall,          \* the function each client called, local and remote
    pret,           \* what the call returned
    pairPre,        \* m_createFromSelect when the mutex was last taken
    pjust,          \* the client whose call returned in the last step, or 0
    freed,          \* locals whose latest change is a successful unregister
    wasFreed,       \* freed, before the call that returned last
    wins            \* per local: registers that returned true since it was
                    \* last unregistered

pairVars == <<m_createFromSelect, m_createfromselect_mux, ppc, pcall, pret,
              pairPre, pjust, freed, wasFreed, wins>>

(***************************************************************************)
(* CacheLayerRegistry: the cached files (SpecCache).  m_cache and          *)
(* managed_file::File are outside these sources.                           *)
(***************************************************************************)
VARIABLES
    cache,          \* m_cache: local path -> the users of the entry
    disk,           \* the local paths that have content on disk
    last,           \* the latest registry call on the cache and its result
    cachePrev,      \* cache before that call
    diskPrev        \* disk before that call

cacheVars == <<cache, disk, last, cachePrev, diskPrev>>

(***************************************************************************)
(* TachyonFileSystemDescriptorBound::fileOpen (SpecTachyon).               *)
(***************************************************************************)
VARIABLES
    fo,             \* the call of fileOpen: where it is, its flags and locals
    tnative         \* the native calls it has made, in order

tachVars == <<fo, tnative>>

(***************************************************************************)
(* CacheLayerRegistry::init (SpecInit).                                    *)
(***************************************************************************)
VARIABLES
    instance_,      \* the scoped_ptr: the registry it owns, 0 for NULL
    roots,          \* per registry constructed: whether its root is usable
    alive,          \* the registries not deleted
    ipc,            \* per caller of init: where it is
    iroot,          \* per caller: whether the root it passes is usable
    iptr,           \* per caller: the pointer instance() gave it
    isaw,           \* per caller: what valid() returned to it
    isteps,         \* per caller: the steps of lines 36-39 it has made
    iret,           \* per caller: what init returned
    imade,          \* per caller: its call has constructed a registry
    ifailed,        \* a call that constructed a registry has returned false
    ilate           \* per caller: its call began after such a return

initVars == <<instance_, roots, alive, ipc, iroot, iptr, isaw, isteps, iret,
             imade, ifailed, ilate>>

(***************************************************************************)
(* ~FileSystemDescriptorBound (SpecTeardown).                              *)
(***************************************************************************)
VARIABLES
    destroyed,      \* the destructor of the adapter has run
    disconnected    \* the handles it has passed to _dfsDisconnect, in order

downVars == <<destroyed, disconnected>>

(***************************************************************************)
(* Two adapters of the registry, each with its own pool (SpecAdapters).    *)
(***************************************************************************)
VARIABLES
    pools,          \* adapter -> its m_connections
    made,           \* adapter -> the connects of its connect() that succeeded
    on,             \* thread -> the adapter whose member it is calling
    apc,            \* thread -> where it is in getFreeConnection()
    ait,            \* thread -> the iterator of its call
    aconn,          \* thread -> the handle its connect() returned
    alease          \* thread -> the raiiDfsConnection it holds (a position)

adapterVars == <<pools, made, on, apc, ait, aconn, alease>>

moreVars == <<tachVars, initVars, downVars, adapterVars>>

nonAdapterVars == <<poolVars, opVars, regVars, pairVars, cacheVars, tachVars,
                    initVars, downVars>>

nonPoolVars == <<opVars, regVars, pairVars, cacheVars, moreVars>>

nonOpVars == <<poolVars, regVars, pairVars, cacheVars, moreVars>>

nonRegVars == <<poolVars, opVars, pairVars, cacheVars, moreVars>>

nonPairVars == <<poolVars, opVars, regVars, cacheVars, moreVars>>

nonCacheVars == <<poolVars, opVars, regVars, pairVars, moreVars>>

nonTachVars == <<poolVars, opVars, regVars, pairVars, cacheVars, initVars,
                 downVars, adapterVars>>

nonInitVars == <<poolVars, opVars, regVars, pairVars, cacheVars, tachVars,
                 downVars, adapterVars>>

vars == <<poolVars, opVars, regVars, pairVars, cacheVars, moreVars>>

NON_INITIALIZED == "NON_INITIALIZED"
FREE_INITIALIZED == "FREE_INITIALIZED"
BUSY_OK == "BUSY_OK"

ConnectionState == {NON_INITIALIZED, FREE_INITIALIZED, BUSY_OK}

dfsConnection(h, s) == [connection |-> h, state |-> s]

\* freeConnectionPredicate: the connection is free and initialized
freeConnectionPredicate(c) == c.state = FREE_INITIALIZED

\* anyNonInitializedConnectionPredicate: neither BUSY_OK nor FREE_INITIALIZED
anyNonInitializedConnectionPredicate(c) ==
    c.state # BUSY_OK /\ c.state # FREE_INITIALIZED

Min(S) == CHOOSE x \in S : \A y \in S : x <= y

\* find_if started one element late
FindFreeSkipFirst(list) ==
    LET hits == {i \in 2..Len(list) : freeConnectionPredicate(list[i])}
    IN  IF hits = {} THEN 0 ELSE Min(hits)

\* std::find_if over a list: the first position that satisfies the predicate,
\* 0 for end()
FindFree(list) ==
    LET hits == {i \in 1..Len(list) : freeConnectionPredicate(list[i])}
    IN  IF hits = {} THEN 0 ELSE Min(hits)

FindNonInitialized(list) ==
    LET hits == {i \in 1..Len(list) :
                    anyNonInitializedConnectionPredicate(list[i])}
    IN  IF hits = {} THEN 0 ELSE Min(hits)

\* _dfsBuilderConnect: a new handle, or NULL (0)
ConnectResults == IF handles < MaxConnects THEN {0, handles + 1} ELSE {0}

NoIo == [name |-> "none", leases |-> <<>>, deref |-> "none",
         native |-> <<>>, ret |-> "none"]

InitIo == io = NoIo

\* The first MaxLog events the callers see: <<"acquire", slot>> when a call
\* returns (slot 0 for the empty raiiDfsConnection), <<"release", slot>> when
\* a raiiDfsConnection is destroyed.
Logged(event) ==
    IF serial /\ Len(log) < MaxLog THEN Append(log, event) ELSE log

InCall(t) == pc[t] \notin {"idle", "holding"}

\* serial callers start a call or drop a lease only between calls
MayStart(t) == serial => \A u \in Threads \ {t} : ~InCall(u)

InitPool ==
    /\ m_connections \in {<<>>, <<dfsConnection(0, NON_INITIALIZED)>>}
    /\ fresh = (m_connections = <<>>)
    /\ pc = [t \in Threads |-> "idle"]
    /\ it = [t \in Threads |-> 0]
    /\ conn = [t \in Threads |-> 0]
    /\ lease = [t \in Threads |-> 0]
    /\ handles = 0
    /\ entry = m_connections
    /\ returned = 0
    /\ released = FALSE
    /\ failed = FALSE
    /\ appended = [t \in Threads |-> <<>>]
    /\ log = <<>>

\* the thread that owns the adapter's m_mux, 0 for none: line 85, the one
\* place that names the mutex, constructs a scoped_lock that locks nothing
m_mux == 0

\* a caller enters getFreeConnection(); line 85 declares a default-constructed
\* scoped_lock named m_mux and locks nothing
Call(t) ==
    /\ pc[t] = "idle"
    /\ MayStart(t)
    /\ pc' = [pc EXCEPT ![t] = "findFree"]
    /\ entry' = m_connections
    /\ appended' = [appended EXCEPT ![t] = <<>>]
    /\ returned' = 0
    /\ UNCHANGED <<m_connections, it, conn, lease, handles, fresh, released, failed, serial, log>>
    /\ UNCHANGED nonPoolVars

\* lines 89-91
FindFreeStep(t) ==
    /\ pc[t] = "findFree"
    /\ it' = [it EXCEPT ![t] = FindFree(m_connections)]
    /\ pc' = [pc EXCEPT ![t] = IF FindFree(m_connections) # 0
                                THEN "markBusy" ELSE "findBroken"]
    /\ returned' = 0
    /\ UNCHANGED <<m_connections, conn, lease, handles, fresh, entry, released, failed, serial, appended, log>>
    /\ UNCHANGED nonPoolVars

\* line 93
MarkBusyState(list, i) == [list EXCEPT ![i].state = BUSY_OK]

MarkBusy(t) ==
    /\ pc[t] = "markBusy"
    /\ m_connections' = MarkBusyState(m_connections, it[t])
    /\ pc' = [pc EXCEPT ![t] = "return"]
    /\ returned' = 0
    /\ UNCHANGED <<it, conn, lease, handles, fresh, entry, released, failed, serial, appended, log>>
    /\ UNCHANGED nonPoolVars

\* lines 94 and 111: return std::move(raiiDfsConnection(*i))
ReturnLease(t) ==
    /\ pc[t] = "return"
    /\ lease' = [lease EXCEPT ![t] = it[t]]
    /\ pc' = [pc EXCEPT ![t] = "holding"]
    /\ returned' = t
    /\ log' = Logged(<<"acquire", it[t]>>)
    /\ UNCHANGED <<m_connections, it, conn, handles, fresh, entry, released, failed, serial, appended>>
    /\ UNCHANGED nonPoolVars

\* lines 101-103
FindBrokenStep(t) ==
    /\ pc[t] = "findBroken"
    /\ it' = [it EXCEPT ![t] = FindNonInitialized(m_connections)]
    /\ pc' = [pc EXCEPT ![t] = IF FindNonInitialized(m_connections) # 0
                                THEN "reconnect" ELSE "connect"]
    /\ returned' = 0
    /\ UNCHANGED <<m_connections, conn, lease, handles, fresh, entry, released, failed, serial, appended, log>>
    /\ UNCHANGED nonPoolVars

\* lines 105-106 and 113-114: connect() for the slot found broken
Reconnect(t) ==
    /\ pc[t] = "reconnect"
    /\ \E h \in ConnectResults :
        /\ conn' = [conn EXCEPT ![t] = h]
        /\ handles' = IF h # 0 THEN h ELSE handles
        /\ failed' = (failed \/ h = 0)
        /\ IF h # 0
           THEN /\ pc' = [pc EXCEPT ![t] = "repair"]
                /\ returned' = 0
                /\ UNCHANGED <<lease, log>>
           ELSE /\ pc' = [pc EXCEPT ![t] = "holding"]
                /\ lease' = [lease EXCEPT ![t] = 0]
                /\ returned' = t
                /\ log' = Logged(<<"acquire", 0>>)
    /\ UNCHANGED <<m_connections, it, fresh, entry, released, serial, appended>>
    /\ UNCHANGED nonPoolVars

\* a repair that puts the new connection in a new slot
RepairSlotAppends(list, i, h) ==
    Append(list, dfsConnection(h, BUSY_OK))

\* lines 109-110
RepairSlot(list, i, h) ==
    [list EXCEPT ![i] = dfsConnection(h, BUSY_OK)]

Repair(t) ==
    /\ pc[t] = "repair"
    /\ m_connections' = RepairSlot(m_connections, it[t], conn[t])
    /\ pc' = [pc EXCEPT ![t] = "return"]
    /\ returned' = 0
    /\ UNCHANGED <<it, conn, lease, handles, fresh, entry, released, failed, serial, appended, log>>
    /\ UNCHANGED nonPoolVars

\* the new dfsConnection put in the list before connect() is tried
ConnectAfterPush(t) ==
    /\ pc[t] = "connect"
    /\ \E h \in ConnectResults :
        /\ conn' = [conn EXCEPT ![t] = h]
        /\ handles' = IF h # 0 THEN h ELSE handles
        /\ failed' = (failed \/ h = 0)
        /\ IF h # 0
           THEN /\ pc' = [pc EXCEPT ![t] = "push"]
                /\ returned' = 0
                /\ UNCHANGED <<lease, log, m_connections>>
           ELSE /\ pc' = [pc EXCEPT ![t] = "holding"]
                /\ lease' = [lease EXCEPT ![t] = 0]
                /\ returned' = t
                /\ log' = Logged(<<"acquire", 0>>)
                /\ m_connections' =
                       Append(m_connections, dfsConnection(0, NON_INITIALIZED))
    /\ UNCHANGED <<it, fresh, entry, released, serial, appended>>
    /\ UNCHANGED nonPoolVars

\* lines 120-124 and 130-132: connect() for a new dfsConnection
Connect(t) ==
    /\ pc[t] = "connect"
    /\ \E h \in ConnectResults :
        /\ conn' = [conn EXCEPT ![t] = h]
        /\ handles' = IF h # 0 THEN h ELSE handles
        /\ failed' = (failed \/ h = 0)
        /\ IF h # 0
           THEN /\ pc' = [pc EXCEPT ![t] = "push"]
                /\ returned' = 0
                /\ UNCHANGED <<lease, log>>
           ELSE /\ pc' = [pc EXCEPT ![t] = "holding"]
                /\ lease' = [lease EXCEPT ![t] = 0]
                /\ returned' = t
                /\ log' = Logged(<<"acquire", 0>>)
    /\ UNCHANGED <<m_connections, it, fresh, entry, released, serial, appended>>
    /\ UNCHANGED nonPoolVars

\* the new connection appended as line 121 left it
PushBackNonInitialized(list, h) ==
    Append(list, dfsConnection(h, NON_INITIALIZED))

\* lines 125-127
PushBack(list, h) == Append(list, dfsConnection(h, FREE_INITIALIZED))

\* lines 125-128: push_back, then return getFreeConnection()
Push(t) ==
    /\ pc[t] = "push"
    /\ m_connections' = PushBack(m_connections, conn[t])
    /\ appended' = [appended EXCEPT ![t] = Append(@, Len(m_connections) + 1)]
    /\ pc' = [pc EXCEPT ![t] = "findFree"]
    /\ returned' = 0
    /\ UNCHANGED <<it, conn, lease, handles, fresh, entry, released, failed, serial, log>>
    /\ UNCHANGED nonPoolVars

\* a destructor that leaves the state of the connection as it is
ReleaseKeepsState(list, i) == list

\* ~raiiDfsConnection: a non-empty one gives its connection back
ReleaseState(list, i) ==
    IF i = 0 THEN list ELSE [list EXCEPT ![i].state = FREE_INITIALIZED]

Release(t) ==
    /\ pc[t] = "holding"
    /\ MayStart(t)
    /\ log' = Logged(<<"release", lease[t]>>)
    /\ m_connections' = ReleaseState(m_connections, lease[t])
    /\ released' = (released \/ lease[t] # 0)
    /\ lease' = [lease EXCEPT ![t] = 0]
    /\ it' = [it EXCEPT ![t] = 0]
    /\ conn' = [conn EXCEPT ![t] = 0]
    /\ pc' = [pc EXCEPT ![t] = "idle"]
    /\ returned' = 0
    /\ UNCHANGED <<handles, fresh, entry, failed, serial, appended>>
    /\ UNCHANGED nonPoolVars

ThreadStep(t) ==
    \/ Call(t)
    \/ FindFreeStep(t)
    \/ MarkBusy(t)
    \/ ReturnLease(t)
    \/ FindBrokenStep(t)
    \/ Reconnect(t)
    \/ Repair(t)
    \/ Connect(t)
    \/ Push(t)
    \/ Release(t)

(***************************************************************************)
(* FileSystemDescriptorBound: the operations that take a raiiDfsConnection *)
(* (lines 135-234).  Each is one statement,                                *)
(*     return _dfsX(conn.connection()->connection, ...);                   *)
(* conn.connection() is the shared_ptr inside the lease and ->connection   *)
(* reads the native handle through it.  Through the empty lease that is a  *)
(* read through a null pointer: undefined behaviour, which ends the        *)
(* process or hands the native call an indeterminate handle.               *)
(***************************************************************************)
\* the native function each operation forwards to
NativeOf ==
    [fileOpen |-> "_dfsOpenFile", fileClose |-> "_dfsCloseFile",
     fileTell |-> "_dfsTell", fileSeek |-> "_dfsSeek",
     fileRead |-> "_dfsRead", filePread |-> "_dfsPread",
     fileWrite |-> "_dfsWrite", fileFlush |-> "_dfsFlush",
     fileRename |-> "_dfsRename", pathDelete |-> "_dfsDelete",
     fileInfo |-> "_dfsGetPathInfo", listDirectory |-> "_dfsListDirectory",
     createDirectory |-> "_dfsCreateDirectory",
     pathExists |-> "_dfsPathExists",
     getDefaultBlockSize |-> "_dfsGetDefaultBlockSize",
     fileAvailable |-> "_dfsAvailable",
     fsSetReplication |-> "_dfsSetReplication",
     fsGetCapacity |-> "_dfsGetCapacity", fsGetUsed |-> "_dfsGetUsed",
     fsChown |-> "_dfsChown", fsChmod |-> "_dfsChmod"]

\* fileCopy and fsMove take two leases, source and destination
NativeOf2 == [fileCopy |-> "_dfsCopy", fsMove |-> "_dfsMove"]

\* what a native call gives back: an error, 0 / NULL, a positive value
NativeResults == {-1, 0, 1}

\* the handle a native call gets when it was read through a null pointer
WildHandle == -1

\* the handle of the first connection of the pool, whatever the lease
HandleOfFirst(l) ==
    IF l = 0 THEN WildHandle ELSE m_connections[1].connection

\* conn.connection()->connection
HandleOf(l) == IF l = 0 THEN WildHandle ELSE m_connections[l].connection

\* pathExists alone changes the native result: == 0 ? true : false
Returned(name, r) == IF name = "pathExists" THEN (r = 0) ELSE r

\* the outcomes of one operation on the leases ls
Outcomes(name, fn, ls) ==
    LET null == \E k \in 1..Len(ls) : ls[k] = 0
        called == {[name |-> name, leases |-> ls,
                    deref |-> IF null THEN "null" ELSE "connection",
                    native |-> <<[fn |-> fn,
                                  handles |-> [k \in 1..Len(ls) |-> HandleOf(ls[k])],
                                  result |-> r]>>,
                    ret |-> Returned(name, r)] : r \in NativeResults}
        crashed == {[name |-> name, leases |-> ls, deref |-> "null",
                     native |-> <<>>, ret |-> "SIGSEGV"]}
    IN  IF null THEN called \cup crashed ELSE called

\* lines 135-197 and 207-234: an operation on one lease
AdapterOp(t) ==
    /\ pc[t] = "holding"
    /\ \E name \in DOMAIN NativeOf :
          io' \in Outcomes(name, NativeOf[name], <<lease[t]>>)
    /\ UNCHANGED nonOpVars

\* lines 199-205: an operation on a source and a destination lease
AdapterOp2(t, u) ==
    /\ t # u
    /\ pc[t] = "holding" /\ pc[u] = "holding"
    /\ \E name \in DOMAIN NativeOf2 :
          io' \in Outcomes(name, NativeOf2[name], <<lease[t], lease[u]>>)
    /\ UNCHANGED nonOpVars

(***************************************************************************)
(* CacheLayerRegistry::setupFileSystem and getFileSystemDescriptor.        *)
(*                                                                         *)
(* An fsDescriptor is [dfs_type, host, port].  An adapter is               *)
(* [gen, variant, fsDescriptor]: gen numbers the adapters constructed for  *)
(* one (dfs_type, host), so two adapters are the same object exactly when  *)
(* they are equal; variant is the class constructed; fsDescriptor is the   *)
(* copy the constructor keeps.                                             *)
(***************************************************************************)
Clients == 1..NumClients

\* constants::DEFAULT_FS
DEFAULT_FS == "default"

FsDescriptor(ty, h, p) == [dfs_type |-> ty, host |-> h, port |-> p]

\* the descriptors the clients pass
Descriptors ==
    {FsDescriptor("hdfs", "nn1", 8020), FsDescriptor("hdfs", "nn1", 9000),
     FsDescriptor("tachyon", "nn1", 8020),
     FsDescriptor("DEFAULT_FROM_CONFIG", DEFAULT_FS, 0)}

\* what _dfsGetDefaultFsHostPortType answers when it succeeds
ResolverAnswers ==
    {FsDescriptor("hdfs", "nn1", 8020), FsDescriptor("tachyon", "nn2", -1)}

DfsTypes == {"hdfs", "tachyon", "DEFAULT_FROM_CONFIG"}

Hosts == {"nn1", "nn2", DEFAULT_FS}

Keys == DfsTypes \X Hosts

NoCall == [fn |-> "none", d |-> FsDescriptor("NON_SPECIFIED", "", 0)]

InitRegistry ==
    /\ m_filesystems = <<>>
    /\ m_connmux = 0
    /\ rpc = [c \in Clients |-> "idle"]
    /\ rcall = [c \in Clients |-> NoCall]
    /\ rret = [c \in Clients |-> "none"]
    /\ built = [k \in Keys |-> 0]

\* m_filesystems[type].count(host)
CountHost(fs, ty, h) ==
    IF ty \in DOMAIN fs /\ h \in DOMAIN fs[ty] THEN 1 ELSE 0

\* the resolver's host, port and type taken as they come
ResolvedAsAnswered(answer) ==
    FsDescriptor(answer.dfs_type, answer.host, answer.port)

\* FileSystemDescriptorBound::resolveFsAddress, lines 72-79, on success
Resolved(answer) ==
    FsDescriptor(answer.dfs_type, answer.host,
                 IF answer.port < 0 THEN 0 ELSE answer.port)

\* _dfsGetDefaultFsHostPortType reporting a failure
ResolverFailure == FsDescriptor("NON_SPECIFIED", "", -1)

\* a resolution that reports success and leaves the descriptor as it was
resolveKeepsHost(d, answer) ==
    IF answer = ResolverFailure
    THEN [status |-> -1, d |-> d]
    ELSE [status |-> 0, d |-> d]

\* lines 55-80: the status returned and the descriptor left behind
resolveFsAddress(d, answer) ==
    IF answer = ResolverFailure
    THEN [status |-> -1, d |-> d]
    ELSE [status |-> 0, d |-> Resolved(answer)]

\* the status of the resolution not looked at
SetupIgnoresStatus(status) == [pc |-> "lock", ret |-> "none"]

\* lines 61-64: a nonzero status ends setupFileSystem
SetupAfterResolve(status) ==
    IF status # 0
    THEN [pc |-> "done", ret |-> "DFS_ADAPTOR_IS_NOT_CONFIGURED"]
    ELSE [pc |-> "lock", ret |-> "none"]

\* the base class constructed whatever the type of the descriptor
NewAdapterBase(d, n) ==
    [gen |-> n,
     variant |-> "FileSystemDescriptorBound",
     fsDescriptor |-> d]

\* lines 75-78: the class constructed for a descriptor
NewAdapter(d, n) ==
    [gen |-> n,
     variant |-> IF d.dfs_type = "tachyon"
                 THEN "TachyonFileSystemDescriptorBound"
                 ELSE "FileSystemDescriptorBound",
     fsDescriptor |-> d]

\* std::map::insert of (key, value): an existing key keeps its value
MapInsert(m, k, v) ==
    IF k \in DOMAIN m THEN m
    ELSE [x \in DOMAIN m \cup {k} |-> IF x = k THEN v ELSE m[x]]

\* m_filesystems[type] of line 70 and 80: an absent type gets an empty map
Touch(fs, ty) == MapInsert(fs, ty, <<>>)

\* the adapter constructed without looking for an existing one, and stored
\* by assignment
InsertAlways(fs, d, n) ==
    LET inner == Touch(fs, d.dfs_type)[d.dfs_type]
        put == [x \in DOMAIN inner \cup {d.host} |->
                   IF x = d.host THEN NewAdapter(d, n) ELSE inner[x]]
    IN  [Touch(fs, d.dfs_type) EXCEPT ![d.dfs_type] = put]

\* an adapter found with another port replaced by one for the new port
InsertIfSamePort(fs, d, n) ==
    IF /\ CountHost(fs, d.dfs_type, d.host) # 0
       /\ fs[d.dfs_type][d.host].fsDescriptor.port = d.port
    THEN Touch(fs, d.dfs_type)
    ELSE InsertAlways(fs, d, n)

\* lines 70-82: the directory after setupFileSystem's critical section; n is
\* the number the adapter gets if one is constructed
InsertIfAbsent(fs, d, n) ==
    IF CountHost(fs, d.dfs_type, d.host) # 0
    THEN Touch(fs, d.dfs_type)
    ELSE [Touch(fs, d.dfs_type) EXCEPT
             ![d.dfs_type] = MapInsert(@, d.host, NewAdapter(d, n))]

\* the adapters InsertIfAbsent constructs: the one it stores, if any
Constructed(fs, fs2, d) ==
    IF CountHost(fs, d.dfs_type, d.host) = 0
       \/ fs2[d.dfs_type][d.host] # fs[d.dfs_type][d.host]
    THEN 1 ELSE 0

\* m_connmux taken on entry, before the host is resolved
SetupCallLocked(c) ==
    /\ rpc[c] = "idle"
    /\ m_connmux = 0
    /\ m_connmux' = c
    /\ \E d \in Descriptors :
          rcall' = [rcall EXCEPT ![c] = [fn |-> "setupFileSystem", d |-> d]]
    /\ rpc' = [rpc EXCEPT ![c] = "resolve"]
    /\ rret' = [rret EXCEPT ![c] = "none"]
    /\ UNCHANGED <<m_filesystems, built>>
    /\ UNCHANGED nonRegVars

\* a client calls setupFileSystem(fsDescriptor)
SetupCall(c) ==
    /\ rpc[c] = "idle"
    /\ \E d \in Descriptors :
          rcall' = [rcall EXCEPT ![c] = [fn |-> "setupFileSystem", d |-> d]]
    /\ rpc' = [rpc EXCEPT ![c] = "resolve"]
    /\ rret' = [rret EXCEPT ![c] = "none"]
    /\ UNCHANGED <<m_filesystems, m_connmux, built>>
    /\ UNCHANGED nonRegVars

\* lines 58-67: the host is resolved when it is DEFAULT_FS, before any lock
SetupResolve(c) ==
    /\ rpc[c] = "resolve"
    /\ IF rcall[c].d.host # DEFAULT_FS
       THEN /\ rpc' = [rpc EXCEPT ![c] = "lock"]
            /\ UNCHANGED <<rcall, rret>>
       ELSE \E a \in ResolverAnswers \cup {ResolverFailure} :
               LET r == resolveFsAddress(rcall[c].d, a)
                   after == SetupAfterResolve(r.status)
               IN  /\ rcall' = [rcall EXCEPT ![c].d = r.d]
                   /\ rpc' = [rpc EXCEPT ![c] = after.pc]
                   /\ rret' = [rret EXCEPT ![c] = after.ret]
    /\ UNCHANGED <<m_filesystems, m_connmux, built>>
    /\ UNCHANGED nonRegVars

\* lines 69 and 86: boost::mutex::scoped_lock lock(m_connmux)
LockConnmux(c) ==
    /\ rpc[c] = "lock"
    /\ m_connmux = 0
    /\ m_connmux' = c
    /\ rpc' = [rpc EXCEPT ![c] = "locked"]
    /\ UNCHANGED <<m_filesystems, rcall, rret, built>>
    /\ UNCHANGED nonRegVars

\* lines 70-83, the lock released with the return
SetupInsert(c) ==
    /\ rpc[c] = "locked" /\ rcall[c].fn = "setupFileSystem"
    /\ m_connmux = c
    /\ LET d == rcall[c].d
           k == <<d.dfs_type, d.host>>
       IN  /\ m_filesystems' = InsertIfAbsent(m_filesystems, d, built[k] + 1)
           /\ built' = [built EXCEPT
                  ![k] = @ + Constructed(m_filesystems, m_filesystems', d)]
    /\ rret' = [rret EXCEPT ![c] = "OK"]
    /\ m_connmux' = 0
    /\ rpc' = [rpc EXCEPT ![c] = "done"]
    /\ UNCHANGED rcall
    /\ UNCHANGED nonRegVars

\* a client calls getFileSystemDescriptor(fsDescriptor)
LookupCall(c) ==
    /\ rpc[c] = "idle"
    /\ \E d \in Descriptors \cup {Resolved(a) : a \in ResolverAnswers} :
          rcall' = [rcall EXCEPT
                       ![c] = [fn |-> "getFileSystemDescriptor", d |-> d]]
    /\ rpc' = [rpc EXCEPT ![c] = "lock"]
    /\ rret' = [rret EXCEPT ![c] = "none"]
    /\ UNCHANGED <<m_filesystems, m_connmux, built>>
    /\ UNCHANGED nonRegVars

\* the nullptr of line 90
NullAdapter == [variant |-> "nullptr"]

\* lines 87-90: the adapter stored for (dfs_type, host), or nullptr
Lookup(fs, d) ==
    IF d.dfs_type \in DOMAIN fs /\ d.host \in DOMAIN fs[d.dfs_type]
    THEN fs[d.dfs_type][d.host]
    ELSE NullAdapter

\* m_filesystems[type][host] with no test of count: operator[] adds what is
\* absent
LookupByIndex(fs, d) ==
    LET touched == Touch(fs, d.dfs_type)
        inner == MapInsert(touched[d.dfs_type], d.host, NullAdapter)
    IN  [fs |-> [touched EXCEPT ![d.dfs_type] = inner], ret |-> inner[d.host]]

\* lines 86-90: the directory after the call and the pointer returned
getFileSystemDescriptor(fs, d) == [fs |-> fs, ret |-> Lookup(fs, d)]

\* lines 87-91, the lock released with the return
LookupReturn(c) ==
    /\ rpc[c] = "locked" /\ rcall[c].fn = "getFileSystemDescriptor"
    /\ m_connmux = c
    /\ LET r == getFileSystemDescriptor(m_filesystems, rcall[c].d)
       IN  /\ rret' = [rret EXCEPT ![c] = r.ret]
           /\ m_filesystems' = r.fs
    /\ m_connmux' = 0
    /\ rpc' = [rpc EXCEPT ![c] = "done"]
    /\ UNCHANGED <<rcall, built>>
    /\ UNCHANGED nonRegVars

\* the caller has read the result
RegistryDone(c) ==
    /\ rpc[c] = "done"
    /\ rpc' = [rpc EXCEPT ![c] = "idle"]
    /\ rcall' = [rcall EXCEPT ![c] = NoCall]
    /\ rret' = [rret EXCEPT ![c] = "none"]
    /\ UNCHANGED <<m_filesystems, m_connmux, built>>
    /\ UNCHANGED nonRegVars

(***************************************************************************)
(* CacheLayerRegistry::registerCreateFromSelectScenario,                   *)
(* unregisterCreateFromSelectScenario and getCreateFromSelectScenario.     *)
(* Each takes m_createfromselect_mux for its whole body.                   *)
(***************************************************************************)
Locals == {"l1", "l2"}

Remotes == {"r1", "r2"}

NoPairCall == [fn |-> "none", local |-> "l1", remote |-> "r1"]

PairCalls ==
    {[fn |-> "register", local |-> l, remote |-> r] : l \in Locals, r \in Remotes}
    \cup {[fn |-> f, local |-> l, remote |-> "r1"] :
            f \in {"unregister", "get"}, l \in Locals}

InitPairing ==
    /\ m_createFromSelect = <<>>
    /\ m_createfromselect_mux = 0
    /\ ppc = [c \in Clients |-> "idle"]
    /\ pcall = [c \in Clients |-> NoPairCall]
    /\ pret = [c \in Clients |-> "none"]
    /\ pairPre = <<>>
    /\ pjust = 0
    /\ freed = {}
    /\ wasFreed = {}
    /\ wins = [l \in Locals |-> 0]

\* m[local] = remote
MapPut(m, k, v) == [x \in DOMAIN m \cup {k} |-> IF x = k THEN v ELSE m[x]]

\* m.erase(local)
MapErase(m, k) == [x \in DOMAIN m \ {k} |-> m[x]]

\* the pairing stored whether or not the local is paired already
registerAlways(m, local, remote) ==
    [map |-> MapPut(m, local, remote), ret |-> TRUE]

\* lines 145-149
registerCreateFromSelectScenario(m, local, remote) ==
    IF local \notin DOMAIN m
    THEN [map |-> MapPut(m, local, remote), ret |-> TRUE]
    ELSE [map |-> m, ret |-> FALSE]

\* erase whose count is not looked at
unregisterAlwaysTrue(m, local) ==
    [map |-> MapErase(m, local), ret |-> TRUE]

\* lines 154-155
unregisterCreateFromSelectScenario(m, local) ==
    [map |-> MapErase(m, local),
     ret |-> (IF local \in DOMAIN m THEN 1 ELSE 0) = 1]

\* lines 160-166: the remote and the flag exists
getCreateFromSelectScenario(m, local) ==
    IF local \notin DOMAIN m THEN <<"NULL", FALSE>> ELSE <<m[local], TRUE>>

PairCall(c) ==
    /\ ppc[c] = "idle"
    /\ \E call \in PairCalls : pcall' = [pcall EXCEPT ![c] = call]
    /\ ppc' = [ppc EXCEPT ![c] = "lock"]
    /\ pret' = [pret EXCEPT ![c] = "none"]
    /\ pjust' = 0
    /\ UNCHANGED <<m_createFromSelect, m_createfromselect_mux, pairPre, freed,
                   wasFreed, wins>>
    /\ UNCHANGED nonPairVars

\* m_connmux taken together with m_createfromselect_mux
PairLockNested(c) ==
    /\ ppc[c] = "lock"
    /\ m_createfromselect_mux = 0
    /\ m_createfromselect_mux' = c
    /\ m_connmux' = c
    /\ pairPre' = m_createFromSelect
    /\ ppc' = [ppc EXCEPT ![c] = "locked"]
    /\ pjust' = 0
    /\ UNCHANGED <<m_createFromSelect, pcall, pret, freed, wasFreed, wins>>
    /\ UNCHANGED <<m_filesystems, rpc, rcall, rret, built>>
    /\ UNCHANGED <<poolVars, opVars, cacheVars, moreVars>>

\* lines 143, 153 and 159: scoped_lock lockconn(m_createfromselect_mux)
PairLock(c) ==
    /\ ppc[c] = "lock"
    /\ m_createfromselect_mux = 0
    /\ m_createfromselect_mux' = c
    /\ pairPre' = m_createFromSelect
    /\ ppc' = [ppc EXCEPT ![c] = "locked"]
    /\ pjust' = 0
    /\ UNCHANGED <<m_createFromSelect, pcall, pret, freed, wasFreed, wins>>
    /\ UNCHANGED nonPairVars

\* lines 145-149, the mutex released with the return
Register(c) ==
    /\ ppc[c] = "locked" /\ pcall[c].fn = "register"
    /\ m_createfromselect_mux = c
    /\ LET r == registerCreateFromSelectScenario(
                    m_createFromSelect, pcall[c].local, pcall[c].remote)
       IN  /\ m_createFromSelect' = r.map
           /\ pret' = [pret EXCEPT ![c] = r.ret]
           /\ freed' = IF r.ret THEN freed \ {pcall[c].local} ELSE freed
           /\ wins' = IF r.ret THEN [wins EXCEPT ![pcall[c].local] = @ + 1]
                      ELSE wins
    /\ wasFreed' = freed
    /\ m_createfromselect_mux' = 0
    /\ ppc' = [ppc EXCEPT ![c] = "done"]
    /\ pjust' = c
    /\ UNCHANGED <<pcall, pairPre>>
    /\ UNCHANGED nonPairVars

\* lines 154-155, the mutex released with the return
Unregister(c) ==
    /\ ppc[c] = "locked" /\ pcall[c].fn = "unregister"
    /\ m_createfromselect_mux = c
    /\ LET r == unregisterCreateFromSelectScenario(
                    m_createFromSelect, pcall[c].local)
       IN  /\ m_createFromSelect' = r.map
           /\ pret' = [pret EXCEPT ![c] = r.ret]
           /\ freed' = IF r.ret THEN freed \cup {pcall[c].local} ELSE freed
           /\ wins' = IF r.ret THEN [wins EXCEPT ![pcall[c].local] = 0]
                      ELSE wins
    /\ wasFreed' = freed
    /\ m_createfromselect_mux' = 0
    /\ ppc' = [ppc EXCEPT ![c] = "done"]
    /\ pjust' = c
    /\ UNCHANGED <<pcall, pairPre>>
    /\ UNCHANGED nonPairVars

\* lines 160-166, the mutex released with the return
Get(c) ==
    /\ ppc[c] = "locked" /\ pcall[c].fn = "get"
    /\ m_createfromselect_mux = c
    /\ pret' = [pret EXCEPT
          ![c] = getCreateFromSelectScenario(m_createFromSelect, pcall[c].local)]
    /\ wasFreed' = freed
    /\ m_createfromselect_mux' = 0
    /\ ppc' = [ppc EXCEPT ![c] = "done"]
    /\ pjust' = c
    /\ UNCHANGED <<m_createFromSelect, pcall, pairPre, freed, wins>>
    /\ UNCHANGED nonPairVars

\* the caller has read the result
PairDone(c) ==
    /\ ppc[c] = "done"
    /\ ppc' = [ppc EXCEPT ![c] = "idle"]
    /\ pcall' = [pcall EXCEPT ![c] = NoPairCall]
    /\ pret' = [pret EXCEPT ![c] = "none"]
    /\ pjust' = 0
    /\ UNCHANGED <<m_createFromSelect, m_createfromselect_mux, pairPre, freed,
                   wasFreed, wins>>
    /\ UNCHANGED nonPairVars

(***************************************************************************)
(* CacheLayerRegistry::findFile, addFile and deleteFile.  They derive the  *)
(* local path and delegate to m_cache; m_cache, managed_file::File and     *)
(* constructLocalPath are outside these sources and follow the design      *)
(* document: an entry counts its users, remove refuses an entry that has   *)
(* users and reports whether the removal was done.                         *)
(***************************************************************************)
RemotePaths == {"", "/a", "/b"}

CacheDescriptor == FsDescriptor("hdfs", "nn1", 8020)

\* managed_file::File::constructLocalPath: empty when no path can be built
constructLocalPath(d, path) == IF path = "" THEN <<>> ELSE <<d.host, path>>

InitCache ==
    /\ cache = <<>>
    /\ disk = {}
    /\ last = [fn |-> "none", fqp |-> <<>>, physically |-> FALSE, ret |-> FALSE,
               called |-> "none", file |-> "untouched"]
    /\ cachePrev = <<>>
    /\ diskPrev = {}

\* m_cache->remove(fqp, physically): what it can return and leave behind
CacheRemove(c, dsk, fqp, physically) ==
    IF fqp \notin DOMAIN c
    THEN {[ret |-> r, cache |-> c, disk |-> dsk] : r \in BOOLEAN}
    ELSE IF c[fqp] > 0
    THEN {[ret |-> FALSE, cache |-> c, disk |-> dsk]}
    ELSE IF ~physically
    THEN {[ret |-> TRUE, cache |-> MapErase(c, fqp), disk |-> dsk]}
    ELSE {[ret |-> TRUE, cache |-> MapErase(c, fqp), disk |-> dsk \ {fqp}],
          [ret |-> FALSE, cache |-> c, disk |-> dsk],
          [ret |-> FALSE, cache |-> MapErase(c, fqp), disk |-> dsk]}

\* what a call leaves behind: its result, the cache, the method of m_cache
\* it called ("none" when it called none) and the caller's file pointer
\* ("untouched", or what the call assigned to it)
Outcome(called, file, o) ==
    [ret |-> o.ret, cache |-> o.cache, disk |-> o.disk,
     called |-> called, file |-> file]

\* if(fqp.empty()) return false;
FailFast(c, dsk) ==
    Outcome("none", "untouched", [ret |-> FALSE, cache |-> c, disk |-> dsk])

\* the result of m_cache->remove dropped and true returned
deleteFileTrue(c, dsk, d, path, physically) ==
    LET fqp == constructLocalPath(d, path)
    IN  IF fqp = <<>>
        THEN {FailFast(c, dsk)}
        ELSE {Outcome("remove", "untouched", [o EXCEPT !.ret = TRUE]) :
                 o \in CacheRemove(c, dsk, fqp, physically)}

\* lines 120-129
deleteFile(c, dsk, d, path, physically) ==
    LET fqp == constructLocalPath(d, path)
    IN  IF fqp = <<>>
        THEN {FailFast(c, dsk)}
        ELSE {Outcome("remove", "untouched", o) :
                 o \in CacheRemove(c, dsk, fqp, physically)}

\* m_cache->deletePath(fqp): the content under the path goes unless it has
\* users; a path of the model is one entry
CacheDeletePath(c, dsk, fqp) == CacheRemove(c, dsk, fqp, TRUE)

\* lines 131-140
deletePath(c, dsk, d, path) ==
    LET fqp == constructLocalPath(d, path)
    IN  IF fqp = <<>>
        THEN {FailFast(c, dsk)}
        ELSE {Outcome("deletePath", "untouched", o) :
                 o \in CacheDeletePath(c, dsk, fqp)}

\* m_cache->add(fqp, file, creationFlag)
CacheAdd(c, dsk, fqp) ==
    IF fqp \in DOMAIN c
    THEN {[ret |-> r, cache |-> c, disk |-> dsk] : r \in BOOLEAN}
    ELSE {[ret |-> TRUE, cache |-> MapPut(c, fqp, 0), disk |-> dsk \cup {fqp}]}

\* lines 110-118
addFile(c, dsk, d, path) ==
    LET fqp == constructLocalPath(d, path)
    IN  IF fqp = <<>>
        THEN {FailFast(c, dsk)}
        ELSE {Outcome("add", "entry", o) : o \in CacheAdd(c, dsk, fqp)}

\* m_cache->find called whatever the path is
findFileByPathNoCheck(c, dsk, fqp) ==
    Outcome("find", IF fqp \in DOMAIN c THEN "entry" ELSE "nullptr",
            [ret |-> fqp \in DOMAIN c, cache |-> c, disk |-> dsk])

\* lines 102-108: the path is the local one; file = m_cache->find(fqp);
\* return file != nullptr
findFileByPath(c, dsk, fqp) ==
    IF fqp = <<>>
    THEN FailFast(c, dsk)
    ELSE Outcome("find", IF fqp \in DOMAIN c THEN "entry" ELSE "nullptr",
                 [ret |-> fqp \in DOMAIN c, cache |-> c, disk |-> dsk])

\* lines 93-100: file = m_cache->find(fqp, transformCmd); file != nullptr
findFile(c, dsk, d, path) ==
    LET fqp == constructLocalPath(d, path)
    IN  IF fqp = <<>>
        THEN FailFast(c, dsk)
        ELSE Outcome("find", IF fqp \in DOMAIN c THEN "entry" ELSE "nullptr",
                     [ret |-> fqp \in DOMAIN c, cache |-> c, disk |-> dsk])

\* the local paths constructLocalPath gives, and the empty one
LocalPaths == {constructLocalPath(CacheDescriptor, path) : path \in RemotePaths}

Called(fn, fqp, physically, o) ==
    [fn |-> fn, fqp |-> fqp, physically |-> physically, ret |-> o.ret,
     called |-> o.called, file |-> o.file]

DeleteFile ==
    /\ \E path \in RemotePaths, physically \in BOOLEAN :
        \E o \in deleteFile(cache, disk, CacheDescriptor, path, physically) :
            /\ cache' = o.cache
            /\ disk' = o.disk
            /\ last' = Called("deleteFile",
                              constructLocalPath(CacheDescriptor, path),
                              physically, o)
    /\ cachePrev' = cache
    /\ diskPrev' = disk
    /\ UNCHANGED nonCacheVars

DeletePath ==
    /\ \E path \in RemotePaths :
        \E o \in deletePath(cache, disk, CacheDescriptor, path) :
            /\ cache' = o.cache
            /\ disk' = o.disk
            /\ last' = Called("deletePath",
                              constructLocalPath(CacheDescriptor, path),
                              TRUE, o)
    /\ cachePrev' = cache
    /\ diskPrev' = disk
    /\ UNCHANGED nonCacheVars

AddFile ==
    /\ \E path \in RemotePaths :
        \E o \in addFile(cache, disk, CacheDescriptor, path) :
            /\ cache' = o.cache
            /\ disk' = o.disk
            /\ last' = Called("addFile",
                              constructLocalPath(CacheDescriptor, path),
                              FALSE, o)
    /\ cachePrev' = cache
    /\ diskPrev' = disk
    /\ UNCHANGED nonCacheVars

FindFile ==
    /\ \E path \in RemotePaths :
        LET o == findFile(cache, disk, CacheDescriptor, path)
        IN  /\ cache' = o.cache
            /\ disk' = o.disk
            /\ last' = Called("findFile",
                              constructLocalPath(CacheDescriptor, path),
                              FALSE, o)
    /\ cachePrev' = cache
    /\ diskPrev' = disk
    /\ UNCHANGED nonCacheVars

FindFileByPath ==
    /\ \E fqp \in LocalPaths :
        LET o == findFileByPath(cache, disk, fqp)
        IN  /\ cache' = o.cache
            /\ disk' = o.disk
            /\ last' = Called("findFileByPath", fqp, FALSE, o)
    /\ cachePrev' = cache
    /\ diskPrev' = disk
    /\ UNCHANGED nonCacheVars

\* a reader of a cached file takes a reference on its entry
UseFile ==
    /\ \E fqp \in DOMAIN cache :
        /\ cache[fqp] < MaxUsers
        /\ cache' = [cache EXCEPT ![fqp] = @ + 1]
        /\ last' = [fn |-> "use", fqp |-> fqp, physically |-> FALSE,
                    ret |-> TRUE, called |-> "none", file |-> "untouched"]
    /\ cachePrev' = cache
    /\ diskPrev' = disk
    /\ UNCHANGED disk
    /\ UNCHANGED nonCacheVars

\* a reader gives its reference back
UnuseFile ==
    /\ \E fqp \in DOMAIN cache :
        /\ cache[fqp] > 0
        /\ cache' = [cache EXCEPT ![fqp] = @ - 1]
        /\ last' = [fn |-> "unuse", fqp |-> fqp, physically |-> FALSE,
                    ret |-> TRUE, called |-> "none", file |-> "untouched"]
    /\ cachePrev' = cache
    /\ diskPrev' = disk
    /\ UNCHANGED disk
    /\ UNCHANGED nonCacheVars

(***************************************************************************)
(* TachyonFileSystemDescriptorBound::fileOpen, lines 270-330, on a lease   *)
(* that is not empty.  Flags are the set of the bits that are set:         *)
(* O_RDONLY is 0, the empty set, and flags == O_WRONLY holds for           *)
(* {"O_WRONLY"} alone.  A handle is a number, NULL is 0.                   *)
(***************************************************************************)
OpenFlags ==
    {{}, {"O_WRONLY"}, {"O_WRONLY", "O_APPEND"}, {"O_WRONLY", "O_CREAT"},
     {"O_RDWR"}}

\* what _dfsRead returns: an error, the end of the stream, some bytes
ReadResults == {-1, 0, 1}

\* what _dfsCloseFile returns
CloseResults == {-1, 0}

NoOpen == [pc |-> "idle", flags |-> {}, handle |-> 0, last_read |-> 0,
           reads |-> 0, ret |-> 0]

InitTachyon ==
    /\ fo = NoOpen
    /\ tnative = <<>>

NativeCall(fn, arg, handle, ret) ==
    [fn |-> fn, arg |-> arg, handle |-> handle, ret |-> ret]

\* the handles _dfsOpenFile can return: NULL, or one not returned before
OpenResults(calls) ==
    {0, 1 + Cardinality({k \in 1..Len(calls) : calls[k].fn = "_dfsOpenFile"})}

\* lines 273-281: handle == NULL, then flags == O_WRONLY
AfterOpen(handle, flags) ==
    IF handle = 0 THEN "null"
    ELSE IF flags = {"O_WRONLY"} THEN "handle"
    ELSE "malloc"

\* the stream closed and reopened after a read that failed as well
AfterReadErrorIsEnd(last_read) ==
    IF last_read > 0 THEN "read" ELSE "close"

\* the stream reopened without the close that follows the last read
AfterReadNoClose(last_read) ==
    IF last_read > 0 THEN "read"
    ELSE IF last_read = 0 THEN "reopen"
    ELSE "null"

\* lines 300-307, 310 and 324-329: the loop runs while last_read > 0; then
\* 0 goes on to the close, anything else returns NULL
AfterRead(last_read) ==
    IF last_read > 0 THEN "read"
    ELSE IF last_read = 0 THEN "close"
    ELSE "null"

\* return NULL, or return handle
Leave(f, how, handle) ==
    [f EXCEPT !.pc = "done", !.ret = IF how = "null" THEN 0 ELSE handle]

\* a caller enters fileOpen(conn, path, flags, ...)
TachyonCall ==
    /\ fo.pc = "idle"
    /\ \E flags \in OpenFlags : fo' = [NoOpen EXCEPT !.pc = "open", !.flags = flags]
    /\ tnative' = <<>>
    /\ UNCHANGED nonTachVars

\* lines 272-281
TachyonOpen ==
    /\ fo.pc = "open"
    /\ \E h \in OpenResults(tnative) :
        LET how == AfterOpen(h, fo.flags)
        IN  /\ tnative' = Append(tnative, NativeCall("_dfsOpenFile", fo.flags, 0, h))
            /\ fo' = IF how = "malloc"
                     THEN [fo EXCEPT !.pc = "malloc", !.handle = h]
                     ELSE Leave([fo EXCEPT !.handle = h], how, h)
    /\ UNCHANGED nonTachVars

\* NULL returned without the close when there is no buffer
TachyonMallocNoClose ==
    /\ fo.pc = "malloc"
    /\ \/ fo' = [fo EXCEPT !.pc = "read"]
       \/ fo' = Leave(fo, "null", 0)
    /\ UNCHANGED tnative
    /\ UNCHANGED nonTachVars

\* lines 286-295: the buffer; without it the handle is closed, NULL returned
TachyonMalloc ==
    /\ fo.pc = "malloc"
    /\ \/ /\ fo' = [fo EXCEPT !.pc = "read"]
          /\ UNCHANGED tnative
       \/ \E r \in CloseResults :
          /\ tnative' = Append(tnative,
                               NativeCall("_dfsCloseFile", {}, fo.handle, r))
          /\ fo' = Leave(fo, "null", 0)
    /\ UNCHANGED nonTachVars

\* lines 300-307: one _dfsRead of the reader
TachyonRead ==
    /\ fo.pc = "read"
    /\ \E r \in ReadResults :
        /\ r > 0 => fo.reads < MaxReads
        /\ tnative' = Append(tnative, NativeCall("_dfsRead", {}, fo.handle, r))
        /\ LET how == AfterRead(r)
               f == [fo EXCEPT !.last_read = r,
                               !.reads = IF r > 0 THEN @ + 1 ELSE @]
           IN  fo' = IF how = "null" THEN Leave(f, "null", 0)
                     ELSE [f EXCEPT !.pc = how]
    /\ UNCHANGED nonTachVars

\* the stream reopened whatever the close returned
TachyonCloseIgnoresRet ==
    /\ fo.pc = "close"
    /\ \E r \in CloseResults :
        /\ tnative' = Append(tnative,
                             NativeCall("_dfsCloseFile", {}, fo.handle, r))
        /\ fo' = [fo EXCEPT !.pc = "reopen"]
    /\ UNCHANGED nonTachVars

\* lines 316-321
TachyonClose ==
    /\ fo.pc = "close"
    /\ \E r \in CloseResults :
        /\ tnative' = Append(tnative,
                             NativeCall("_dfsCloseFile", {}, fo.handle, r))
        /\ fo' = IF r # 0 THEN Leave(fo, "null", 0)
                 ELSE [fo EXCEPT !.pc = "reopen"]
    /\ UNCHANGED nonTachVars

\* lines 322-324: the stream reopened, the new handle returned
TachyonReopen ==
    /\ fo.pc = "reopen"
    /\ \E h \in OpenResults(tnative) :
        /\ tnative' = Append(tnative, NativeCall("_dfsOpenFile", fo.flags, 0, h))
        /\ fo' = Leave([fo EXCEPT !.handle = h], "handle", h)
    /\ UNCHANGED nonTachVars

\* the caller has the handle
TachyonDone ==
    /\ fo.pc = "done"
    /\ fo' = NoOpen
    /\ tnative' = <<>>
    /\ UNCHANGED nonTachVars

(***************************************************************************)
(* CacheLayerRegistry::init, lines 19-42.  No lock is taken.  A registry   *)
(* is a number, its root is usable or not; valid() of a registry that has  *)
(* been deleted can return anything.                                       *)
(***************************************************************************)
InitInstance ==
    /\ instance_ = 0
    /\ roots = <<>>
    /\ alive = {}
    /\ ipc = [c \in Clients |-> "idle"]
    /\ iroot = [c \in Clients |-> FALSE]
    /\ iptr = [c \in Clients |-> 0]
    /\ isaw = [c \in Clients |-> FALSE]
    /\ isteps = [c \in Clients |-> <<>>]
    /\ iret = [c \in Clients |-> FALSE]
    /\ imade = [c \in Clients |-> FALSE]
    /\ ifailed = FALSE
    /\ ilate = [c \in Clients |-> FALSE]

\* the steps after the test of valid() made whatever it returned
AfterValidGoesOn(valid) == "fileInit"

\* lines 30-33: return false when the instance is not valid
AfterValid(valid) == IF valid THEN "fileInit" ELSE "false"

\* a caller enters init(mem_limit_percent, root, timeslice, size_hard_limit)
InitCall(c) ==
    /\ ipc[c] = "idle"
    /\ ipc' = [ipc EXCEPT ![c] = "check"]
    /\ \E usable \in BOOLEAN : iroot' = [iroot EXCEPT ![c] = usable]
    /\ iptr' = [iptr EXCEPT ![c] = 0]
    /\ isaw' = [isaw EXCEPT ![c] = FALSE]
    /\ isteps' = [isteps EXCEPT ![c] = <<>>]
    /\ iret' = [iret EXCEPT ![c] = FALSE]
    /\ imade' = [imade EXCEPT ![c] = FALSE]
    /\ ilate' = [ilate EXCEPT ![c] = ifailed]
    /\ UNCHANGED <<instance_, roots, alive, ifailed>>
    /\ UNCHANGED nonInitVars

\* line 27: instance_.get() == NULL
CheckInstance(c) ==
    /\ ipc[c] = "check"
    /\ ipc' = [ipc EXCEPT ![c] = IF instance_ = 0 THEN "construct" ELSE "instance"]
    /\ UNCHANGED <<instance_, roots, alive, iroot, iptr, isaw, isteps, iret,
                 imade, ifailed, ilate>>
    /\ UNCHANGED nonInitVars

\* line 28: instance_.reset(new CacheLayerRegistry(..., root, ...)); reset
\* deletes the registry the pointer owned
Construct(c) ==
    /\ ipc[c] = "construct"
    /\ roots' = Append(roots, iroot[c])
    /\ instance_' = Len(roots) + 1
    /\ alive' = (alive \ {instance_}) \cup {Len(roots) + 1}
    /\ ipc' = [ipc EXCEPT ![c] = "instance"]
    /\ imade' = [imade EXCEPT ![c] = TRUE]
    /\ UNCHANGED <<iroot, iptr, isaw, isteps, iret, ifailed, ilate>>
    /\ UNCHANGED nonInitVars

\* line 30: CacheLayerRegistry::instance()
Instance(c) ==
    /\ ipc[c] = "instance"
    /\ iptr' = [iptr EXCEPT ![c] = instance_]
    /\ ipc' = [ipc EXCEPT ![c] = "valid"]
    /\ UNCHANGED <<instance_, roots, alive, iroot, isaw, isteps, iret,
                 imade, ifailed, ilate>>
    /\ UNCHANGED nonInitVars

\* lines 30-33: ->valid()
Valid(c) ==
    /\ ipc[c] = "valid"
    /\ \E valid \in IF iptr[c] \in alive THEN {roots[iptr[c]]} ELSE BOOLEAN :
        /\ isaw' = [isaw EXCEPT ![c] = valid]
        /\ ipc' = [ipc EXCEPT ![c] = IF AfterValid(valid) = "false"
                                      THEN "done" ELSE AfterValid(valid)]
        /\ ifailed' = (ifailed \/ (imade[c] /\ AfterValid(valid) = "false"))
    /\ UNCHANGED <<instance_, roots, alive, iroot, iptr, isteps, iret,
                 imade, ilate>>
    /\ UNCHANGED nonInitVars

\* line 36: managed_file::File::initialize()
FileInitialize(c) ==
    /\ ipc[c] = "fileInit"
    /\ isteps' = [isteps EXCEPT ![c] = Append(@, "File::initialize")]
    /\ ipc' = [ipc EXCEPT ![c] = "reload"]
    /\ UNCHANGED <<instance_, roots, alive, iroot, iptr, isaw, iret,
                 imade, ifailed, ilate>>
    /\ UNCHANGED nonInitVars

\* lines 39-41: instance()->reload(); return true
Reload(c) ==
    /\ ipc[c] = "reload"
    /\ isteps' = [isteps EXCEPT ![c] = Append(@, "reload")]
    /\ iret' = [iret EXCEPT ![c] = TRUE]
    /\ ipc' = [ipc EXCEPT ![c] = "done"]
    /\ UNCHANGED <<instance_, roots, alive, iroot, iptr, isaw,
                 imade, ifailed, ilate>>
    /\ UNCHANGED nonInitVars

\* the caller has the result
InitDone(c) ==
    /\ ipc[c] = "done"
    /\ ipc' = [ipc EXCEPT ![c] = "idle"]
    /\ UNCHANGED <<instance_, roots, alive, iroot, iptr, isaw, isteps, iret,
                 imade, ifailed, ilate>>
    /\ UNCHANGED nonInitVars

(***************************************************************************)
(* ~FileSystemDescriptorBound, lines 48-53.  The adapters are owned by     *)
(* m_filesystems (shared_ptr), which no function of the registry erases    *)
(* from: the destructor runs when the registry goes.                       *)
(***************************************************************************)
InitTeardown ==
    /\ destroyed = FALSE
    /\ disconnected = <<>>

\* a destructor that leaves the connections in use alone
DisconnectsFree(list) ==
    LET free == SelectSeq(list, LAMBDA c : c.state # BUSY_OK)
    IN  [i \in 1..Len(free) |-> free[i].connection]

\* lines 50-52: for(auto item : m_connections) _dfsDisconnect(item->connection)
Disconnects(list) == [i \in 1..Len(list) |-> list[i].connection]

Destroy ==
    /\ ~destroyed
    /\ destroyed' = TRUE
    /\ disconnected' = Disconnects(m_connections)
    /\ UNCHANGED <<poolVars, opVars, regVars, pairVars, cacheVars, tachVars,
                   initVars, adapterVars>>

(***************************************************************************)
(* getFreeConnection() (lines 82-133) and the release of its lease on the  *)
(* adapters of two endpoints.  The function works on the members of the    *)
(* adapter it is called on: m_connections (lines 89, 101, 127) and, in     *)
(* connect(), m_fsDescriptor (lines 35-45).                                *)
(***************************************************************************)
Adapters == {"hdfs://nn1", "tachyon://nn2"}

\* no thread is in an adapter
InitCallers ==
    /\ made = [a \in Adapters |-> 0]
    /\ on = [t \in Threads |-> "hdfs://nn1"]
    /\ apc = [t \in Threads |-> "idle"]
    /\ ait = [t \in Threads |-> 0]
    /\ aconn = [t \in Threads |-> 0]
    /\ alease = [t \in Threads |-> 0]

InitAdapters ==
    /\ pools = [a \in Adapters |-> <<>>]
    /\ InitCallers

\* as in InitPool, the list of one adapter may hold a connection that is
\* neither free nor busy
InitAdaptersSeeded ==
    /\ pools \in {[a \in Adapters |-> <<>>],
                  [a \in Adapters |->
                      IF a = "tachyon://nn2"
                      THEN <<dfsConnection(0, NON_INITIALIZED)>> ELSE <<>>]}
    /\ InitCallers

\* one list shared by the adapters
SharedList(t) == "hdfs://nn1"

\* this->m_connections
ThisList(t) == on[t]

\* what connect() of adapter a can return: NULL, or a new handle
ConnectResultsOn(a) ==
    IF made[a] < MaxSlots THEN {0, made[a] + 1} ELSE {0}

\* the thread goes on, the adapters' lists as they are
GoOn(t, to) ==
    /\ apc' = [apc EXCEPT ![t] = to]
    /\ UNCHANGED <<pools, made, on, aconn, alease>>

OnCall(t) ==
    /\ apc[t] = "idle"
    /\ \E a \in Adapters : on' = [on EXCEPT ![t] = a]
    /\ apc' = [apc EXCEPT ![t] = "findFree"]
    /\ UNCHANGED <<pools, made, ait, aconn, alease>>
    /\ UNCHANGED nonAdapterVars

\* lines 89-91
OnFindFree(t) ==
    /\ apc[t] = "findFree"
    /\ ait' = [ait EXCEPT ![t] = FindFree(pools[ThisList(t)])]
    /\ GoOn(t, IF FindFree(pools[ThisList(t)]) # 0
               THEN "markBusy" ELSE "findBroken")
    /\ UNCHANGED nonAdapterVars

\* lines 93-94
OnMarkBusy(t) ==
    /\ apc[t] = "markBusy"
    /\ pools' = [pools EXCEPT
                    ![ThisList(t)] = MarkBusyState(@, ait[t])]
    /\ alease' = [alease EXCEPT ![t] = ait[t]]
    /\ apc' = [apc EXCEPT ![t] = "holding"]
    /\ UNCHANGED <<made, on, ait, aconn>>
    /\ UNCHANGED nonAdapterVars

\* lines 101-103
OnFindBroken(t) ==
    /\ apc[t] = "findBroken"
    /\ ait' = [ait EXCEPT ![t] = FindNonInitialized(pools[ThisList(t)])]
    /\ GoOn(t, IF FindNonInitialized(pools[ThisList(t)]) # 0
               THEN "reconnect" ELSE "connect")
    /\ UNCHANGED nonAdapterVars

\* lines 105-115 and 120-132: connect(), an empty lease when it fails
OnConnect(t) ==
    /\ apc[t] \in {"reconnect", "connect"}
    /\ \E h \in ConnectResultsOn(on[t]) :
        /\ aconn' = [aconn EXCEPT ![t] = h]
        /\ made' = [made EXCEPT ![on[t]] = IF h # 0 THEN h ELSE @]
        /\ apc' = [apc EXCEPT ![t] =
                      IF h = 0 THEN "holding"
                      ELSE IF apc[t] = "reconnect" THEN "repair" ELSE "push"]
    /\ alease' = [alease EXCEPT ![t] = 0]
    /\ UNCHANGED <<pools, on, ait>>
    /\ UNCHANGED nonAdapterVars

\* lines 109-111
OnRepair(t) ==
    /\ apc[t] = "repair"
    /\ pools' = [pools EXCEPT
                    ![ThisList(t)] = RepairSlot(@, ait[t], aconn[t])]
    /\ alease' = [alease EXCEPT ![t] = ait[t]]
    /\ apc' = [apc EXCEPT ![t] = "holding"]
    /\ UNCHANGED <<made, on, ait, aconn>>
    /\ UNCHANGED nonAdapterVars

\* lines 125-128
OnPush(t) ==
    /\ apc[t] = "push"
    /\ pools' = [pools EXCEPT ![ThisList(t)] = PushBack(@, aconn[t])]
    /\ apc' = [apc EXCEPT ![t] = "findFree"]
    /\ UNCHANGED <<made, on, ait, aconn, alease>>
    /\ UNCHANGED nonAdapterVars

\* ~raiiDfsConnection
OnRelease(t) ==
    /\ apc[t] = "holding"
    /\ pools' = [pools EXCEPT ![on[t]] = ReleaseState(@, alease[t])]
    /\ alease' = [alease EXCEPT ![t] = 0]
    /\ ait' = [ait EXCEPT ![t] = 0]
    /\ aconn' = [aconn EXCEPT ![t] = 0]
    /\ apc' = [apc EXCEPT ![t] = "idle"]
    /\ UNCHANGED <<made, on>>
    /\ UNCHANGED nonAdapterVars

\* the steps of a call between its entry and its return
OnCallStep(t) ==
    \/ OnFindFree(t)
    \/ OnMarkBusy(t)
    \/ OnFindBroken(t)
    \/ OnConnect(t)
    \/ OnRepair(t)
    \/ OnPush(t)

(***************************************************************************)
(* The specifications.                                                     *)
(***************************************************************************)
Init == InitPool /\ serial = FALSE /\ InitIo /\ InitRegistry /\ InitPairing /\ InitCache /\ InitTachyon /\ InitInstance /\ InitTeardown /\ InitAdapters

Next == \E t \in Threads : ThreadStep(t)

Spec == Init /\ [][Next]_vars

\* the steps of getFreeConnection() between its entry and its return: none
\* of them waits for a lock or for another thread
CallStep(t) ==
    \/ FindFreeStep(t)
    \/ MarkBusy(t)
    \/ ReturnLease(t)
    \/ FindBrokenStep(t)
    \/ Reconnect(t)
    \/ Repair(t)
    \/ Connect(t)
    \/ Push(t)

\* every thread that is inside getFreeConnection() keeps being scheduled; a
\* thread that holds a lease may keep it for ever
SpecLive == Init /\ [][Next]_vars /\ \A t \in Threads : WF_vars(CallStep(t))

\* the pool used by one caller at a time until the adapter is destroyed
NextTeardown ==
    \/ \E t \in Threads : ~destroyed /\ ThreadStep(t)
    \/ Destroy

\* the same calls made one at a time
InitSeq == InitPool /\ serial = TRUE /\ InitIo /\ InitRegistry /\ InitPairing /\ InitCache /\ InitTachyon /\ InitInstance /\ InitTeardown /\ InitAdapters

SpecSeq == InitSeq /\ [][Next]_vars

SpecTeardown == InitSeq /\ [][NextTeardown]_vars

\* The first n threads hold leases over the n slots of the pool, the others
\* hold the empty lease of a call whose connect() failed.
InitOps ==
    /\ \E n \in 0..NumThreads :
        /\ m_connections = [i \in 1..n |-> dfsConnection(i, BUSY_OK)]
        /\ lease = [t \in Threads |-> IF t <= n THEN t ELSE 0]
        /\ handles = n
        /\ failed = (n < NumThreads)
    /\ fresh = TRUE
    /\ pc = [t \in Threads |-> "holding"]
    /\ it = lease
    /\ conn = [t \in Threads |-> 0]
    /\ entry = m_connections
    /\ returned = 0
    /\ released = FALSE
    /\ log = <<>>
    /\ appended = [t \in Threads |-> <<>>]
    /\ serial = TRUE
    /\ InitIo
    /\ InitRegistry
    /\ InitPairing
    /\ InitCache /\ InitTachyon /\ InitInstance /\ InitTeardown /\ InitAdapters

NextOps ==
    \/ \E t \in Threads : AdapterOp(t)
    \/ \E t, u \in Threads : AdapterOp2(t, u)

SpecOps == InitOps /\ [][NextOps]_vars

\* the registry and its clients
InitReg == InitPool /\ fresh /\ serial = FALSE /\ InitIo /\ InitRegistry /\ InitPairing /\ InitCache /\ InitTachyon /\ InitInstance /\ InitTeardown /\ InitAdapters

NextRegistry ==
    \E c \in Clients :
        \/ SetupCall(c)
        \/ SetupResolve(c)
        \/ LockConnmux(c)
        \/ SetupInsert(c)
        \/ LookupCall(c)
        \/ LookupReturn(c)
        \/ RegistryDone(c)

SpecRegistry == InitReg /\ [][NextRegistry]_vars

\* the pairings and their clients
InitPair ==
    InitPool /\ fresh /\ serial = FALSE /\ InitIo /\ InitRegistry /\ InitPairing /\ InitCache /\ InitTachyon /\ InitInstance /\ InitTeardown /\ InitAdapters

NextPairing ==
    \E c \in Clients :
        \/ PairCall(c)
        \/ PairLock(c)
        \/ Register(c)
        \/ Unregister(c)
        \/ Get(c)
        \/ PairDone(c)

SpecPairing == InitPair /\ [][NextPairing]_vars

\* the cached files
InitFiles ==
    /\ InitPool /\ fresh /\ serial = FALSE /\ InitIo
    /\ InitRegistry /\ InitPairing /\ InitCache /\ InitTachyon /\ InitInstance /\ InitTeardown /\ InitAdapters

NextCache ==
    \/ DeleteFile
    \/ DeletePath
    \/ AddFile
    \/ FindFile
    \/ FindFileByPath
    \/ UseFile
    \/ UnuseFile

SpecCache == InitFiles /\ [][NextCache]_vars

\* fileOpen of the Tachyon adapter, one call at a time
NextTachyon ==
    \/ TachyonCall
    \/ TachyonOpen
    \/ TachyonMalloc
    \/ TachyonRead
    \/ TachyonClose
    \/ TachyonReopen
    \/ TachyonDone

SpecTachyon == InitFiles /\ [][NextTachyon]_vars

\* init and its callers
NextInit ==
    \E c \in Clients :
        \/ InitCall(c)
        \/ CheckInstance(c)
        \/ Construct(c)
        \/ Instance(c)
        \/ Valid(c)
        \/ FileInitialize(c)
        \/ Reload(c)
        \/ InitDone(c)

SpecInit == InitFiles /\ [][NextInit]_vars

\* getFreeConnection() and releases on the two adapters
NextAdapters ==
    \E t \in Threads : OnCall(t) \/ OnCallStep(t) \/ OnRelease(t)

\* the first thread keeps being scheduled while it is inside a call; the
\* others may stop anywhere, for ever
InitTwo ==
    /\ InitPool /\ fresh /\ serial = FALSE /\ InitIo
    /\ InitRegistry /\ InitPairing /\ InitCache /\ InitTachyon
    /\ InitInstance /\ InitTeardown
    /\ InitAdaptersSeeded

SpecAdapters ==
    /\ InitTwo
    /\ [][NextAdapters]_vars
    /\ WF_vars(OnCallStep(1))

(***************************************************************************)
(* The pool: claims.                                                       *)
(***************************************************************************)
Holders(i) == {t \in Threads : pc[t] = "holding" /\ lease[t] = i}

Quiet == \A t \in Threads : ~InCall(t)

\* C1: each pooled connection is referenced by at most one live non-empty
\* raiiDfsConnection: two threads never hold leases over the same connection
\* (here on an adapter whose pool was empty at construction).
LeaseExclusivity ==
    fresh => \A i \in 1..Len(m_connections) : Cardinality(Holders(i)) <= 1

\* C3: when getFreeConnection() returns a non-empty raiiDfsConnection, the
\* connection it references is BUSY_OK at the moment of the return (here on
\* an adapter whose pool was empty at construction).
LeaseBusyAtReturn ==
    \A t \in Threads :
        fresh /\ returned = t /\ lease[t] # 0
            => m_connections[lease[t]].state = BUSY_OK

\* C4: from an empty pool, K concurrent calls that all succeed, with no lease
\* released, leave exactly K connections in the pool once all have returned.
DemandBoundedGrowth ==
    fresh /\ ~released /\ ~failed /\ Quiet
        => Len(m_connections) =
               Cardinality({t \in Threads : pc[t] = "holding"})

\* C5: a call entered while the pool holds a FREE_INITIALIZED slot returns a
\* lease over a slot that was in the pool, free, at entry and leaves the pool
\* size as it was; on a fresh adapter acquire, release, acquire keeps the pool
\* at size 1 (BUSY_OK, then FREE_INITIALIZED, then BUSY_OK) and the second
\* acquire returns the slot of the first.
ReuseBeforeGrowth ==
    /\ \A t \in Threads :
          returned = t /\ (\E i \in 1..Len(entry) : entry[i].state = FREE_INITIALIZED)
            => /\ lease[t] \in 1..Len(entry)
               /\ entry[lease[t]].state = FREE_INITIALIZED
               /\ Len(m_connections) = Len(entry)
    /\ fresh /\ Quiet /\ Len(log) >= 1 /\ Len(log) <= 3
         /\ log[1][1] = "acquire" /\ log[1][2] # 0
         /\ (Len(log) >= 2 => log[2] = <<"release", log[1][2]>>)
         /\ (Len(log) >= 3 => log[3][1] = "acquire")
            => /\ Len(m_connections) = 1
               /\ m_connections[1].state =
                      (IF Len(log) = 2 THEN FREE_INITIALIZED ELSE BUSY_OK)
               /\ Len(log) = 3 => log[3][2] = log[1][2]

ReuseBeforeGrowthWitness ==
    /\ fresh /\ Quiet /\ Len(log) = 3
    /\ log[1][1] = "acquire" /\ log[1][2] # 0
    /\ log[2] = <<"release", log[1][2]>>
    /\ log[3][1] = "acquire"
    /\ returned # 0

AllBusy(list) == \A i \in 1..Len(list) : list[i].state = BUSY_OK

\* C7: when a call finds neither a free nor a broken slot and connect() for
\* the new connection fails, it returns the empty raiiDfsConnection and the
\* pool (size, every slot's state and handle) is as it was before the call.
NoGhostSlot ==
    \A t \in Threads :
        returned = t /\ AllBusy(entry) /\ conn[t] = 0
            => lease[t] = 0 /\ m_connections = entry

NoGhostSlotWitness ==
    \E t \in Threads :
        /\ returned = t /\ AllBusy(entry) /\ conn[t] = 0
        /\ Len(entry) >= 1

(***************************************************************************)
(* The operations: claims.                                                 *)
(***************************************************************************)
\* C6: an operation given the empty lease returns an I/O failure, issues no
\* native call and dereferences no connection.
EmptyLeaseGuard ==
    (\E k \in 1..Len(io.leases) : io.leases[k] = 0)
        => /\ io.native = <<>>
           /\ io.deref = "none"
           /\ io.ret \in {-1, 0, FALSE}

\* a raiiDfsConnection over slot i is live, or is being returned
Referenced(i) ==
    \E t \in Threads :
        \/ pc[t] = "holding" /\ lease[t] = i
        \/ pc[t] = "return" /\ it[t] = i

\* C17: when the holder of a non-empty raiiDfsConnection is done with it the
\* connection becomes FREE_INITIALIZED, and after every step a connection
\* that is BUSY_OK has a raiiDfsConnection that references it: none stays
\* busy once its holders have finished.
LeaseReleaseFrees ==
    [][/\ \A t \in Threads :
            pc[t] = "holding" /\ pc'[t] = "idle" /\ lease[t] # 0
                => m_connections'[lease[t]].state = FREE_INITIALIZED
       /\ \A i \in 1..Len(m_connections') :
            m_connections'[i].state = BUSY_OK => Referenced(i)']_vars

\* every lease has been given back and every connection is free again
LeaseReleaseFreesWitness ==
    /\ released
    /\ \A t \in Threads : pc[t] = "idle"
    /\ Len(m_connections) > 1
    /\ \A i \in 1..Len(m_connections) :
          m_connections[i].state = FREE_INITIALIZED

\* C20: a call of getFreeConnection() ends with a raiiDfsConnection over a
\* connection that is BUSY_OK, or with the empty one after a connect() of
\* this call that failed (here on an adapter whose pool was empty at
\* construction).
AcquisitionOutcome ==
    \A t \in Threads :
        fresh /\ returned = t
            => IF lease[t] = 0
               THEN conn[t] = 0 /\ failed
               ELSE /\ lease[t] \in 1..Len(m_connections)
                    /\ m_connections[lease[t]].state = BUSY_OK
                    /\ m_connections[lease[t]].connection # 0

\* where a call reads or writes the state of a connection or the list
ScanMutate == {"findFree", "markBusy", "findBroken", "repair", "push"}

\* C22: a thread that reads or writes the state of a pooled connection, or
\* changes the list, in getFreeConnection() owns m_mux, and no two threads
\* are in that part of the function at the same time.
StateUnderLock ==
    /\ \A t \in Threads : pc[t] \in ScanMutate => m_mux = t
    /\ Cardinality({t \in Threads : pc[t] \in ScanMutate}) <= 1

\* one native call of the kind of the operation, on the handles of the
\* connections the leases reference
ForwardedOnce ==
    /\ Len(io.native) = 1
    /\ io.native[1].fn = IF io.name \in DOMAIN NativeOf
                         THEN NativeOf[io.name] ELSE NativeOf2[io.name]
    /\ Len(io.native[1].handles) = Len(io.leases)
    /\ \A k \in 1..Len(io.leases) :
          io.native[1].handles[k] = m_connections[io.leases[k]].connection

OnLeases ==
    /\ io.name # "none"
    /\ \A k \in 1..Len(io.leases) : io.leases[k] # 0

\* C21, as stated: every operation on leases that are not empty makes one
\* native call of its kind on the handle of the leased connection and
\* returns the result of that call unchanged.
PassThroughAsStated ==
    OnLeases => /\ ForwardedOnce
                /\ ToString(io.ret) = ToString(io.native[1].result)

\* C21, amended: the same, except that pathExists returns whether the result
\* of the native call is 0.
PassThrough ==
    OnLeases => /\ ForwardedOnce
                /\ IF io.name = "pathExists"
                   THEN io.ret = (io.native[1].result = 0)
                   ELSE io.ret = io.native[1].result

\* an operation has been forwarded on the second connection of the pool
PassThroughWitness ==
    /\ OnLeases
    /\ io.name = "fileRead"
    /\ io.leases = <<2>>
    /\ io.native[1].handles = <<2>>

\* the state changes of a pooled connection the state machine allows
StateChanges ==
    {<<FREE_INITIALIZED, BUSY_OK>>, <<BUSY_OK, FREE_INITIALIZED>>,
     <<NON_INITIALIZED, BUSY_OK>>}

\* thread t executes line 93 (kind "markBusy") or lines 109-110 ("repair")
\* on slot i in this step
Writes(t, i, kind) ==
    pc[t] = kind /\ pc'[t] = "return" /\ it[t] = i

\* C25: a pooled connection changes state only FREE_INITIALIZED -> BUSY_OK
\* (acquire), BUSY_OK -> FREE_INITIALIZED (release) or NON_INITIALIZED ->
\* BUSY_OK (repair); a new connection enters the pool FREE_INITIALIZED; the
\* acquire of line 93 acts on a FREE_INITIALIZED connection only (never on a
\* BUSY_OK one), the repair of line 110 on a NON_INITIALIZED one only.
ConnectionStateMachine ==
    [][/\ \A i \in DOMAIN m_connections :
            /\ \/ m_connections'[i].state = m_connections[i].state
               \/ <<m_connections[i].state, m_connections'[i].state>>
                      \in StateChanges
            /\ \A t \in Threads :
                 /\ Writes(t, i, "markBusy")
                        => m_connections[i].state = FREE_INITIALIZED
                 /\ Writes(t, i, "repair")
                        => m_connections[i].state = NON_INITIALIZED
       /\ \A i \in DOMAIN m_connections' \ DOMAIN m_connections :
            m_connections'[i].state = FREE_INITIALIZED]_vars

\* C26: the pool never gets shorter, a slot keeps its position (the handle
\* at a position changes only when lines 109-110 repair the slot there), and
\* one call of getFreeConnection() appends at most one slot.
PoolMonotone ==
    /\ [](\A t \in Threads : Len(appended[t]) <= 1)
    /\ [][/\ Len(m_connections') >= Len(m_connections)
          /\ \A i \in DOMAIN m_connections :
                \/ m_connections'[i].connection = m_connections[i].connection
                \/ \E t \in Threads : Writes(t, i, "repair")]_vars

\* the call that has just returned to thread t took the repair path: at its
\* entry no connection was free and one was neither busy nor free
RepairCall(t) ==
    /\ returned = t
    /\ FindFree(entry) = 0
    /\ FindNonInitialized(entry) # 0

\* the call of thread t makes one attempt: from connect() of line 105 it goes
\* to lines 109-111 or returns, and from there it returns
OneAttempt(t) ==
    /\ pc[t] = "reconnect" => pc'[t] \in {"reconnect", "repair", "holding"}
    /\ pc[t] = "repair" => pc'[t] \in {"repair", "return"}
    /\ pc[t] = "return" => pc'[t] \in {"return", "holding"}
    /\ pc[t] \in {"reconnect", "repair"} => appended'[t] = <<>>

\* C27: a call that finds no free connection but one that is neither busy
\* nor free makes one connect() attempt and appends no slot; when connect()
\* succeeds the slot holds the new handle, is BUSY_OK and is the one the
\* lease is over; when it fails the lease is empty and the pool is as it was
\* at the entry of the call.  Calls are made one at a time.
InPlaceRepair ==
    /\ [][\A t \in Threads : OneAttempt(t)]_vars
    /\ [](\A t \in Threads : RepairCall(t) =>
            LET i == FindNonInitialized(entry)
            IN  /\ appended[t] = <<>>
                /\ Len(m_connections) = Len(entry)
                /\ \/ /\ lease[t] = 0
                      /\ conn[t] = 0
                      /\ m_connections = entry
                   \/ /\ lease[t] = i
                      /\ conn[t] # 0
                      /\ conn[t] # entry[i].connection
                      /\ m_connections =
                           [entry EXCEPT ![i] = dfsConnection(conn[t], BUSY_OK)])

\* a repair that succeeded after an earlier call's repair had failed
InPlaceRepairWitness ==
    \E t \in Threads :
        /\ RepairCall(t)
        /\ lease[t] # 0
        /\ failed

\* C28: a call that has appended a new connection (lines 125-127) returns a
\* lease over that connection and has appended no second one, whatever the
\* other threads' calls do in between.
NewSlotToCreator ==
    \A t \in Threads :
        (returned = t /\ appended[t] # <<>>) =>
            /\ Len(appended[t]) = 1
            /\ lease[t] = appended[t][1]

\* every call of getFreeConnection() returns, whether or not the other
\* threads ever give their leases back
CallCompletes == \A t \in Threads : InCall(t) ~> pc[t] = "holding"

\* C29: while a thread keeps a lease for ever, every other thread's call of
\* getFreeConnection() returns, and it returns an empty lease or a lease over
\* a connection other than the ones the other threads hold.
SlowIoDoesNotBlock ==
    /\ CallCompletes
    /\ [](\A t \in Threads :
            (returned = t /\ lease[t] # 0) =>
                \A u \in Threads \ {t} :
                    pc[u] = "holding" => lease[u] # lease[t])

\* C35: _dfsDisconnect is called only by the destructor of the adapter, and
\* the destructor calls it once for each connection of m_connections, with
\* the handle of that connection, whatever its state; so for no handle that
\* is not in the list.
TeardownClosesAll ==
    /\ ~destroyed => disconnected = <<>>
    /\ destroyed =>
          /\ Len(disconnected) = Len(m_connections)
          /\ \A i \in DOMAIN m_connections :
                disconnected[i] = m_connections[i].connection

\* an adapter destroyed with a free connection and one that is leased
TeardownClosesAllWitness ==
    /\ destroyed
    /\ \E i, j \in DOMAIN m_connections :
          /\ m_connections[i].state = BUSY_OK
          /\ m_connections[j].state = FREE_INITIALIZED
          /\ disconnected[i] # 0

\* C36: the list of an adapter changes only in a step of a thread that is
\* in getFreeConnection() of that adapter or gives back a lease of it; no
\* lock of the registry is owned by a thread that is in an adapter; and a
\* thread's call of getFreeConnection() returns (the thread being scheduled)
\* wherever the other threads have stopped, inside a call on the other
\* adapter included.
CrossAdapterIndependence ==
    /\ [][\A a \in Adapters :
            pools'[a] # pools[a] =>
                \E t \in Threads : on[t] = a /\ apc'[t] # apc[t]]_vars
    /\ [](m_connmux = 0 /\ m_createfromselect_mux = 0 /\ m_mux = 0)
    /\ (apc[1] \notin {"idle", "holding"}) ~> (apc[1] = "holding")

\* a call on one adapter has returned a lease while another thread is inside
\* getFreeConnection() of the other adapter, about to append its first
\* connection
CrossAdapterIndependenceWitness ==
    \E t, u \in Threads :
        /\ apc[t] = "holding" /\ alease[t] # 0
        /\ apc[u] = "push"
        /\ on[t] # on[u]
        /\ pools[on[u]] = <<>>

\* C39: in a pool that was empty when its adapter was constructed, every
\* connection of the list is FREE_INITIALIZED or BUSY_OK and has a handle
\* that is not NULL, and no call is on the repair path (lines 104-115).
SlotsAlwaysConnected ==
    fresh =>
        /\ \A i \in DOMAIN m_connections :
              /\ m_connections[i].state \in {FREE_INITIALIZED, BUSY_OK}
              /\ m_connections[i].connection # 0
        /\ \A t \in Threads : pc[t] \notin {"reconnect", "repair"}

\* such a pool after a connect() that failed and a lease given back, with a
\* free and a busy connection
SlotsAlwaysConnectedWitness ==
    /\ fresh /\ failed /\ released
    /\ \E i, j \in DOMAIN m_connections :
          /\ m_connections[i].state = FREE_INITIALIZED
          /\ m_connections[j].state = BUSY_OK

(***************************************************************************)
(* The locks: claims.  A thread is a number; it is in one function of the  *)
(* registry or of an adapter at a time.                                    *)
(***************************************************************************)
\* the locks thread n owns: the adapter's, the directory's, the pairings'
LocksHeld(n) ==
    {l \in {"m_mux", "m_connmux", "m_createfromselect_mux"} :
        n = CASE l = "m_mux" -> m_mux
              [] l = "m_connmux" -> m_connmux
              [] l = "m_createfromselect_mux" -> m_createfromselect_mux}

\* thread n is in a native call: connect() of lines 105 and 123, the
\* resolution of line 60, or an operation on the lease it holds
InNative(n) ==
    \/ n \in Threads /\ pc[n] \in {"reconnect", "connect", "holding"}
    \/ n \in Clients /\ rpc[n] = "resolve" /\ rcall[n].d.host = DEFAULT_FS

\* C23: a thread that is in a native call (connect() of getFreeConnection,
\* the resolution of setupFileSystem, an operation on a leased connection)
\* owns none of the three locks.
NoLockAcrossNative ==
    \A n \in Threads \cup Clients : InNative(n) => LocksHeld(n) = {}

\* a client resolves the host while another one owns m_connmux
NoLockAcrossNativeWitness ==
    \E c, o \in Clients :
        /\ c # o
        /\ rpc[c] = "resolve" /\ rcall[c].d.host = DEFAULT_FS
        /\ m_connmux = o

AllocationFailure ==
    [][(fo.pc = "malloc" /\ fo'.pc = "done") =>
          /\ fo'.ret = 0
          /\ fo.handle # 0
          /\ Len(tnative') = 2
          /\ tnative'[1].fn = "_dfsOpenFile"
          /\ tnative'[1].ret = fo.handle
          /\ tnative'[2].fn = "_dfsCloseFile"
          /\ tnative'[2].handle = fo.handle]_vars

\* an open for read has returned after the open and the close alone
AllocationFailureWitness ==
    /\ fo.pc = "done"
    /\ fo.flags = {}
    /\ fo.ret = 0
    /\ Len(tnative) = 2
    /\ tnative[2].fn = "_dfsCloseFile"

\* the native handles a finished fileOpen has opened and not closed
OpenNotClosed ==
    {tnative[k].ret : k \in {j \in 1..Len(tnative) :
                                /\ tnative[j].fn = "_dfsOpenFile"
                                /\ tnative[j].ret # 0}}
        \ {tnative[k].handle : k \in {j \in 1..Len(tnative) :
                                        tnative[j].fn = "_dfsCloseFile"}}

\* C37: a fileOpen whose first _dfsOpenFile succeeded and which returns NULL
\* has called _dfsCloseFile on the handle of that open; a finished fileOpen
\* has one handle opened and not closed when it returns a handle, none when
\* it returns NULL.
NoLeakedHandle ==
    fo.pc = "done" =>
        /\ (tnative[1].ret # 0 /\ fo.ret = 0) =>
              \E k \in 1..Len(tnative) :
                  /\ tnative[k].fn = "_dfsCloseFile"
                  /\ tnative[k].handle = tnative[1].ret
        /\ Cardinality(OpenNotClosed) = IF fo.ret = 0 THEN 0 ELSE 1

\* C38: when the reads have reached the end of the stream and _dfsCloseFile
\* returns nonzero, fileOpen returns NULL with that close as its last native
\* call; a second _dfsOpenFile is only ever made right after a _dfsCloseFile
\* that returned 0.
CloseFailureAbandons ==
    /\ \A k \in 2..Len(tnative) :
          tnative[k].fn = "_dfsOpenFile" =>
              /\ tnative[k - 1].fn = "_dfsCloseFile"
              /\ tnative[k - 1].ret = 0
    /\ \A k \in 1..Len(tnative) :
          (/\ tnative[k].fn = "_dfsCloseFile"
           /\ tnative[k].ret # 0
           /\ fo.pc # "close") =>
              /\ k = Len(tnative)
              /\ fo.pc = "done"
              /\ fo.ret = 0

\* the stream read to its end, the close failed, NULL returned
CloseFailureAbandonsWitness ==
    /\ fo.pc = "done"
    /\ fo.ret = 0
    /\ Len(tnative) >= 3
    /\ tnative[Len(tnative) - 1].fn = "_dfsRead"
    /\ tnative[Len(tnative) - 1].ret = 0
    /\ tnative[Len(tnative)].fn = "_dfsCloseFile"
    /\ tnative[Len(tnative)].ret # 0

(***************************************************************************)
(* The registry: claims.                                                   *)
(***************************************************************************)
KeyOf(d) == <<d.dfs_type, d.host>>

\* C2: the directory holds at most one adapter per (type, host): however the
\* setupFileSystem calls interleave, exactly one adapter is ever constructed
\* for a (type, host) that was set up, it is never replaced or removed, every
\* setupFileSystem that reaches the directory returns OK, and every
\* getFileSystemDescriptor that finds an adapter returns that one.
AdapterSingleton ==
    /\ \A k \in Keys :
        /\ built[k] <= 1
        /\ built[k] = CountHost(m_filesystems, k[1], k[2])
        /\ built[k] = 1 => /\ m_filesystems[k[1]][k[2]].gen = 1
                           /\ KeyOf(m_filesystems[k[1]][k[2]].fsDescriptor) = k
    /\ \A c \in Clients :
        /\ rpc[c] = "done" /\ rcall[c].fn = "setupFileSystem"
             /\ rcall[c].d.host # DEFAULT_FS
             => rret[c] = "OK" /\ built[KeyOf(rcall[c].d)] = 1
        /\ rpc[c] = "done" /\ rcall[c].fn = "getFileSystemDescriptor"
             /\ rret[c] # NullAdapter
             => rret[c] = m_filesystems[rcall[c].d.dfs_type][rcall[c].d.host]

\* two setupFileSystem calls for one (type, host) have both returned OK
AdapterSingletonWitness ==
    \E c1, c2 \in Clients :
        /\ c1 # c2
        /\ rpc[c1] = "done" /\ rcall[c1].fn = "setupFileSystem" /\ rret[c1] = "OK"
        /\ rpc[c2] = "done" /\ rcall[c2].fn = "setupFileSystem" /\ rret[c2] = "OK"
        /\ KeyOf(rcall[c1].d) = KeyOf(rcall[c2].d)

\* C11: when setupFileSystem is called with host DEFAULT_FS and the
\* resolution fails (the host is still DEFAULT_FS after it), the call returns
\* DFS_ADAPTOR_IS_NOT_CONFIGURED at once and the step leaves the directory
\* as it was: no adapter is constructed or inserted.
ResolutionFailureAborts ==
    [][\A c \in Clients :
          /\ rpc[c] = "resolve"
          /\ rpc'[c] # "resolve"
          /\ rcall[c].d.host = DEFAULT_FS
          /\ rcall'[c].d.host = DEFAULT_FS
          => /\ rpc'[c] = "done"
             /\ rret'[c] = "DFS_ADAPTOR_IS_NOT_CONFIGURED"
             /\ m_filesystems' = m_filesystems
             /\ built' = built]_vars

\* a setupFileSystem has returned DFS_ADAPTOR_IS_NOT_CONFIGURED
ResolutionFailureAbortsWitness ==
    \E c \in Clients :
        /\ rpc[c] = "done"
        /\ rcall[c].fn = "setupFileSystem"
        /\ rcall[c].d.host = DEFAULT_FS
        /\ rret[c] = "DFS_ADAPTOR_IS_NOT_CONFIGURED"

\* C12: when the resolution of a descriptor with host DEFAULT_FS succeeds
\* (setupFileSystem goes on to the lock), the descriptor has a host that is
\* neither DEFAULT_FS nor empty, a port >= 0 and a type that is neither
\* DEFAULT_FROM_CONFIG nor NON_SPECIFIED.
ResolutionRoundTrip ==
    [][\A c \in Clients :
          /\ rpc[c] = "resolve"
          /\ rcall[c].d.host = DEFAULT_FS
          /\ rpc'[c] = "lock"
          => /\ rcall'[c].d.host \notin {DEFAULT_FS, ""}
             /\ rcall'[c].d.port >= 0
             /\ rcall'[c].d.dfs_type
                    \notin {"DEFAULT_FROM_CONFIG", "NON_SPECIFIED"}]_vars

\* a resolution that answered a negative port has succeeded
ResolutionRoundTripWitness ==
    \E c \in Clients :
        /\ rpc[c] = "lock"
        /\ rcall[c].fn = "setupFileSystem"
        /\ rcall[c].d = FsDescriptor("tachyon", "nn2", 0)

\* C30: no adapter is stored under the host DEFAULT_FS and none has a
\* descriptor with that host; a setupFileSystem call goes to the directory
\* with a host other than DEFAULT_FS, and when it has returned it has either
\* returned OK with the adapter of its (resolved) type and host stored, or
\* DFS_ADAPTOR_IS_NOT_CONFIGURED after a resolution that failed.
SentinelNeverKey ==
    /\ \A ty \in DOMAIN m_filesystems :
         \A h \in DOMAIN m_filesystems[ty] :
            /\ h # DEFAULT_FS
            /\ m_filesystems[ty][h].fsDescriptor.host # DEFAULT_FS
    /\ \A c \in Clients :
         rcall[c].fn = "setupFileSystem" =>
            /\ rpc[c] \in {"lock", "locked"} => rcall[c].d.host # DEFAULT_FS
            /\ rpc[c] = "done" =>
                 IF rcall[c].d.host = DEFAULT_FS
                 THEN rret[c] = "DFS_ADAPTOR_IS_NOT_CONFIGURED"
                 ELSE /\ rret[c] = "OK"
                      /\ CountHost(m_filesystems, rcall[c].d.dfs_type,
                                   rcall[c].d.host) = 1

\* a call with host DEFAULT_FS has returned OK, its adapter stored under the
\* host the resolver answered
SentinelNeverKeyWitness ==
    \E c \in Clients :
        /\ rpc[c] = "done"
        /\ rcall[c].fn = "setupFileSystem"
        /\ rret[c] = "OK"
        /\ rcall[c].d = FsDescriptor("tachyon", "nn2", 0)
        /\ CountHost(m_filesystems, "tachyon", "nn2") = 1

\* the adapters of the directory fs, as <<type, host>> pairs
Stored(fs) ==
    {k \in Keys : CountHost(fs, k[1], k[2]) = 1}

\* C31: the adapter stored for a type and host is a
\* TachyonFileSystemDescriptorBound exactly when the type (the one of the
\* descriptor after its resolution) is tachyon, a FileSystemDescriptorBound
\* otherwise, and a stored adapter is never replaced by another one.
VariantSelection ==
    /\ [](\A k \in Stored(m_filesystems) :
            LET a == m_filesystems[k[1]][k[2]]
            IN  /\ a.fsDescriptor.dfs_type = k[1]
                /\ a.variant = IF k[1] = "tachyon"
                               THEN "TachyonFileSystemDescriptorBound"
                               ELSE "FileSystemDescriptorBound")
    /\ [][\A k \in Stored(m_filesystems) :
            /\ k \in Stored(m_filesystems')
            /\ m_filesystems'[k[1]][k[2]] = m_filesystems[k[1]][k[2]]]_vars

\* the directory holds the adapter of a resolved tachyon descriptor and the
\* one of an hdfs descriptor
VariantSelectionWitness ==
    /\ <<"tachyon", "nn2">> \in Stored(m_filesystems)
    /\ <<"hdfs", "nn1">> \in Stored(m_filesystems)

\* client c leaves the critical section of setupFileSystem in this step,
\* and the directory held an adapter of its type and host with another port
SetupWithOtherPort(c) ==
    /\ rpc[c] = "locked"
    /\ rcall[c].fn = "setupFileSystem"
    /\ rpc'[c] = "done"
    /\ KeyOf(rcall[c].d) \in Stored(m_filesystems)
    /\ m_filesystems[rcall[c].d.dfs_type][rcall[c].d.host].fsDescriptor.port
           # rcall[c].d.port

\* C32: setupFileSystem for a type and host that have an adapter, called
\* with another port, returns OK, constructs no adapter and leaves the
\* directory, and with it the descriptor (the port) of the adapter, as it was.
PortIsNotIdentity ==
    [][\A c \in Clients :
          SetupWithOtherPort(c) =>
              /\ rret'[c] = "OK"
              /\ built' = built
              /\ m_filesystems' = m_filesystems]_vars

\* a call for hdfs, nn1, port 9000 has returned OK and the adapter of hdfs,
\* nn1 is the one constructed for port 8020
PortIsNotIdentityWitness ==
    \E c \in Clients :
        /\ rpc[c] = "done"
        /\ rcall[c] = [fn |-> "setupFileSystem",
                       d |-> FsDescriptor("hdfs", "nn1", 9000)]
        /\ rret[c] = "OK"
        /\ <<"hdfs", "nn1">> \in Stored(m_filesystems)
        /\ m_filesystems["hdfs"]["nn1"].fsDescriptor.port = 8020

\* C13: getFileSystemDescriptor returns nullptr for a (type, host) no
\* setupFileSystem has returned OK for and the adapter of the directory for
\* one that has, and it leaves the directory as it was.  (built[k] counts the
\* adapters constructed for k: it is positive from the step on in which the
\* first setupFileSystem for k returns OK.)
LookupOnlyAfterSetup ==
    [][/\ \A c \in Clients :
            /\ rpc[c] = "locked"
            /\ rcall[c].fn = "getFileSystemDescriptor"
            /\ rpc'[c] = "done"
            => /\ m_filesystems' = m_filesystems
               /\ IF built[KeyOf(rcall[c].d)] = 0
                  THEN rret'[c] = NullAdapter
                  ELSE /\ rret'[c] # NullAdapter
                       /\ rret'[c] =
                            m_filesystems[rcall[c].d.dfs_type][rcall[c].d.host]
       /\ \A c \in Clients :
            /\ rpc'[c] = "done"
            /\ rcall'[c].fn = "setupFileSystem"
            /\ rret'[c] = "OK"
            => built'[KeyOf(rcall'[c].d)] > 0
       /\ built' # built
            => \E c \in Clients :
                  /\ rpc[c] = "locked" /\ rcall[c].fn = "setupFileSystem"
                  /\ rpc'[c] = "done" /\ rret'[c] = "OK"]_vars

\* a lookup has returned nullptr while the directory holds another adapter
LookupOnlyAfterSetupWitness ==
    \E c \in Clients :
        /\ rpc[c] = "done"
        /\ rcall[c].fn = "getFileSystemDescriptor"
        /\ rret[c] = NullAdapter
        /\ \E k \in Keys : built[k] = 1

(***************************************************************************)
(* The Tachyon adapter's fileOpen: claims.                                 *)
(***************************************************************************)
Made(fn) == {k \in 1..Len(tnative) : tnative[k].fn = fn}

ReadFailed == \E k \in Made("_dfsRead") : tnative[k].ret < 0

\* open, reads of the first handle up to the one that returns 0, close of the
\* first handle, open with the arguments of the first
PrimedInOrder ==
    LET n == Len(tnative)
    IN  /\ n >= 4
        /\ tnative[1].fn = "_dfsOpenFile"
        /\ \A k \in 2..(n - 2) :
              /\ tnative[k].fn = "_dfsRead"
              /\ tnative[k].handle = tnative[1].ret
              /\ tnative[k].ret > 0 <=> k < n - 2
        /\ tnative[n - 2].ret = 0
        /\ tnative[n - 1].fn = "_dfsCloseFile"
        /\ tnative[n - 1].handle = tnative[1].ret
        /\ tnative[n].fn = "_dfsOpenFile"
        /\ tnative[n].arg = tnative[1].arg
        /\ fo.ret = tnative[n].ret
        /\ fo.ret # tnative[1].ret

OpenedForRead ==
    /\ fo.pc = "done"
    /\ "O_WRONLY" \notin fo.flags
    /\ tnative[1].ret # 0
    /\ ~ReadFailed

\* C14, as stated: an open for read whose first open succeeds and whose reads
\* never fail makes the native calls open, reads up to the end of the stream,
\* close, open, in this order, and returns the handle of the second open.
PrimingOrderAsStated == OpenedForRead => PrimedInOrder

\* C14, amended: the same when, moreover, the buffer was allocated (a read
\* was made) and the close of the first handle returned 0.
PrimingOrder ==
    /\ OpenedForRead
    /\ Made("_dfsRead") # {}
    /\ \A k \in Made("_dfsCloseFile") : tnative[k].ret = 0
    => PrimedInOrder

\* a file of more than one buffer has been primed and reopened
PrimingOrderWitness ==
    /\ OpenedForRead
    /\ PrimedInOrder
    /\ fo.flags = {}
    /\ Len(tnative) > 4
    /\ fo.ret # 0

\* C15: for every open whose flags have the write bit, alone or with other
\* bits, no read, close or second open is made and the result is the handle
\* of the one _dfsOpenFile, as the base fileOpen returns it.
WriteBypassesPriming ==
    "O_WRONLY" \in fo.flags
        => /\ Len(tnative) <= 1
           /\ fo.pc = "done" => /\ tnative[1].fn = "_dfsOpenFile"
                                /\ fo.ret = tnative[1].ret

\* C16: when a read of the priming pass returns -1, fileOpen returns NULL
\* with that read as its last native call: no further read, no close, no
\* second open.
PrimingErrorAbandons ==
    \A k \in Made("_dfsRead") :
        tnative[k].ret < 0
            => /\ k = Len(tnative)
               /\ fo.pc = "done"
               /\ fo.ret = 0
               /\ Cardinality(Made("_dfsOpenFile")) = 1

\* a read has failed after part of the file was read
PrimingErrorAbandonsWitness ==
    /\ ReadFailed
    /\ \E k \in Made("_dfsRead") : tnative[k].ret > 0
    /\ fo.flags = {}

(***************************************************************************)
(* CacheLayerRegistry::init: claims.                                       *)
(***************************************************************************)
\* C18: over any number of calls of init, concurrent ones included, one
\* registry is constructed, and it stays the instance.
SingleConstruction ==
    /\ Len(roots) <= 1
    /\ instance_ # 0 => instance_ = 1 /\ alive = {1}

\* C19: a call of init to which valid() returned false returns false and
\* makes neither File::initialize() nor reload(); the two are made, in this
\* order, only by a call that returns true.
InvalidRootAborts ==
    \A c \in Clients :
        /\ isteps[c] # <<>> => isaw[c]
        /\ isteps[c] \in {<<>>, <<"File::initialize">>,
                          <<"File::initialize", "reload">>}
        /\ ipc[c] = "done"
             => /\ iret[c] = isaw[c]
                /\ iret[c] <=> isteps[c] = <<"File::initialize", "reload">>

\* init has returned false for a registry whose root is not usable
InvalidRootAbortsWitness ==
    \E c \in Clients :
        /\ ipc[c] = "done"
        /\ ~iret[c]
        /\ iptr[c] \in alive
        /\ ~roots[iptr[c]]

\* C40: once a call of init that constructed a registry has returned false,
\* every call of init that begins afterwards returns false, whatever root
\* it is given.
FailureIsSticky ==
    \A c \in Clients : (ipc[c] = "done" /\ ilate[c]) => ~iret[c]

(***************************************************************************)
(* The cached files: claims.                                               *)
(***************************************************************************)
\* C8: deleteFile returns false and leaves the entry and its content as they
\* were when the entry has users; with no users, when the removal is done, it
\* returns true, the entry is gone and findFile no longer finds it; no call
\* removes an entry that has users.
RefcountGatedDelete ==
    /\ last.fn = "deleteFile" /\ last.fqp \in DOMAIN cachePrev
         => IF cachePrev[last.fqp] > 0
            THEN ~last.ret /\ cache = cachePrev /\ disk = diskPrev
            ELSE (~last.physically \/ last.fqp \notin disk) => last.ret
    /\ last.fn = "deleteFile" /\ last.fqp \in DOMAIN cachePrev /\ last.ret
         => /\ last.fqp \notin DOMAIN cache
            /\ last.physically => last.fqp \notin disk
    /\ last.fn = "findFile" => last.ret = (last.fqp \in DOMAIN cache)
    /\ \A f \in DOMAIN cachePrev :
         cachePrev[f] > 0
            => f \in DOMAIN cache /\ (f \in diskPrev => f \in disk)

\* a deleteFile has been refused for an entry in use
RefcountGatedDeleteWitness ==
    /\ last.fn = "deleteFile"
    /\ last.fqp \in DOMAIN cachePrev
    /\ cachePrev[last.fqp] > 0
    /\ last.physically

\* C34: findFile (both of them), addFile, deleteFile and deletePath, when
\* the local path they work on is empty, return false, call no method of
\* m_cache, leave the cache and the disk as they were and do not assign to
\* the caller's file pointer.
FailFastOnEmptyPath ==
    (/\ last.fn \in {"findFile", "findFileByPath", "addFile", "deleteFile",
                     "deletePath"}
     /\ last.fqp = <<>>) =>
        /\ ~last.ret
        /\ last.called = "none"
        /\ last.file = "untouched"
        /\ cache = cachePrev
        /\ disk = diskPrev

\* findFile has been given an empty local path while the cache has an entry
FailFastOnEmptyPathWitness ==
    /\ last.fn = "findFileByPath"
    /\ last.fqp = <<>>
    /\ cache # <<>>

(***************************************************************************)
(* The pairings: claims.                                                   *)
(***************************************************************************)
\* C9: register(L, R) returns true and stores L -> R iff L has no pairing; on
\* a paired L it returns false and the map is unchanged; get returns the
\* pairing and never changes the map; of the registers for one L, however
\* they interleave, exactly one returns true until L is unregistered.
PairingUniqueness ==
    /\ \A c \in Clients :
        pjust = c =>
            LET L == pcall[c].local
                R == pcall[c].remote
            IN  /\ pcall[c].fn = "register" /\ L \notin DOMAIN pairPre
                     => /\ pret[c] = TRUE
                        /\ L \in DOMAIN m_createFromSelect
                        /\ m_createFromSelect[L] = R
                        /\ \A x \in DOMAIN pairPre :
                               /\ x \in DOMAIN m_createFromSelect
                               /\ m_createFromSelect[x] = pairPre[x]
                        /\ DOMAIN m_createFromSelect = DOMAIN pairPre \cup {L}
                /\ pcall[c].fn = "register" /\ L \in DOMAIN pairPre
                     => pret[c] = FALSE /\ m_createFromSelect = pairPre
                /\ pcall[c].fn = "get"
                     => /\ m_createFromSelect = pairPre
                        /\ pret[c] = IF L \in DOMAIN pairPre
                                     THEN <<pairPre[L], TRUE>>
                                     ELSE <<"NULL", FALSE>>
    /\ \A l \in Locals :
        wins[l] = IF l \in DOMAIN m_createFromSelect THEN 1 ELSE 0

\* L is paired with R1, a concurrent register(L, R2) has just returned false
PairingUniquenessWitness ==
    \E c1, c2 \in Clients :
        /\ pjust = c2
        /\ pcall[c2].fn = "register" /\ pret[c2] = FALSE
        /\ ppc[c1] = "done" /\ pcall[c1].fn = "register" /\ pret[c1] = TRUE
        /\ pcall[c1].local = pcall[c2].local
        /\ pcall[c1].remote # pcall[c2].remote
        /\ m_createFromSelect[pcall[c1].local] = pcall[c1].remote

\* C10: unregister(L) returns true iff L was paired and then removes only
\* that pairing, else it returns false and the map is unchanged; after it
\* returned true get(L) returns exists = false and the next register(L, R')
\* returns true and maps L -> R'; no call changes the remote of a pairing
\* that stays in the map.
UnregisterThenRegister ==
    \A c \in Clients :
        pjust = c =>
            LET L == pcall[c].local
            IN  /\ pcall[c].fn = "unregister"
                     => /\ pret[c] = (L \in DOMAIN pairPre)
                        /\ DOMAIN m_createFromSelect = DOMAIN pairPre \ {L}
                /\ pcall[c].fn = "get" /\ L \in wasFreed
                     => pret[c] = <<"NULL", FALSE>>
                /\ pcall[c].fn = "register" /\ L \in wasFreed
                     => /\ pret[c] = TRUE
                        /\ m_createFromSelect[L] = pcall[c].remote
                /\ \A x \in DOMAIN pairPre \cap DOMAIN m_createFromSelect :
                       m_createFromSelect[x] = pairPre[x]

\* a register has just succeeded for a local that was unregistered before
UnregisterThenRegisterWitness ==
    \E c \in Clients :
        /\ pjust = c
        /\ pcall[c].fn = "register"
        /\ pcall[c].local \in wasFreed
        /\ pret[c] = TRUE

====
